---- MODULE Spec2Model ----
(***************************************************************************)
(* Event-dispatch, invalidation and deduplication pipeline of mrbets.      *)
(*                                                                         *)
(* The specifications of this module:                                      *)
(*   Spec         the fixture work queues and the workers that drain them  *)
(*   CrashSpec    Spec with a queue service that fails and workers that    *)
(*                die                                                      *)
(*   PatchSpec    the ai_predictions table, the Quick Patch invalidation,  *)
(*                the prediction store and the prediction read paths       *)
(*   DispatchSpec the dispatcher's handling of a breaking tweet: its own   *)
(*                priority enqueue followed by the Quick Patch             *)
(*   DedupSpec    the processed_url guard of the scraper                   *)
(*   LogSpec      the consumer groups of stream:raw_events                 *)
(*   LogFairSpec  LogSpec with consumer loops that keep running            *)
(*   ClassifierSpec  the breaking-news classification of one tweet         *)
(*   RetrySpec    the retry loop of each caller of the reasoning service   *)
(*   DocSpec      the writers of the table processed_documents             *)
(*   LinkSpec     the player and coach lookups of the entity linker        *)
(*   RankSpec     the ranking of the context retriever                     *)
(*   SearchSpec   the index query of the context retriever                 *)
(*   ReasonerSpec the validation of a response by the prediction reasoner  *)
(*   IndexSpec    the dual write of a document to document_chunks and to   *)
(*                the vector index                                         *)
(* Every action leaves the variables of the other specifications alone.    *)
(***************************************************************************)
EXTENDS Integers, Sequences, FiniteSets, TLC

(* ---------------------------- bounds ----------------------------------- *)
NumWorkers == 2
NumFixtures == 2
MaxEvents == 2
MaxPushes == 1
MaxSubmissions == 3
NumUrls == 2
MaxPredictions == 4
MaxDocuments == 3
MaxCandidates == 2
NumLinkTeams == 2
MaxChunks == 2
MaxRankCalls == 2
MaxVectors == 2
MaxBets == 1
NumChunks == 2
MaxRuns == 2
MaxStored == 1

Workers == 1..NumWorkers
Fixtures == 1..NumFixtures
\* team ids of a breaking event; 0 is an event that names no known team
Teams == 0..(NumFixtures + 1)

(* ------------------------ program constants ---------------------------- *)
PREDICTION_WINDOW_HOURS == 48
IMPACT_THRESHOLD == 60
BREAKING_NEWS_THRESHOLD == 7
MAX_RETRIES == 3
QUICK_PATCH_MAX_RETRIES == 3
OPENAI_MAX_RETRIES == 3
TOP_CHUNKS_LIMIT == 20
DEFAULT_DAYS_BACK == 14
MAX_CHUNKS_PER_SEARCH == 100

VARIABLES
  (* Spec: fixture work queues (worker.py, scan_fixtures.py) *)
  queue_fixtures_priority,  \* Redis list "queue:fixtures:priority"
  queue_fixtures_normal,    \* Redis list "queue:fixtures:normal"
  fixtures_scanned,         \* Redis set "set:fixtures_scanned_today"
  priority_pushes,          \* number of breaking-news pushes so far
  pc,                       \* position of every worker in consume_fixtures_queue
  fixture_id,               \* local fixture_id of consume_fixtures_queue (0: none yet)
  from_queue,               \* queue the held fixture was popped from
  success,                  \* local success of consume_fixtures_queue
  (* PatchSpec: ai_predictions and the Quick Patch (quick_patch_generator.py) *)
  ai_predictions,           \* Supabase table ai_predictions, in insertion order
  telegram_posts,           \* Redis stream "stream:telegram_posts"
  events_total,             \* number of breaking events dispatched so far
  qp_pc,                    \* position of every worker in the Quick Patch / store
  event_data,               \* the breaking event a worker handles
  affected_predictions,     \* local of process_breaking_news_impact
  impact_results,           \* local of process_breaking_news_impact
  result_index,             \* position of the loop over impact_results
  analysis_failed,          \* positions of the candidates whose impact rating failed
  store_error,              \* a Supabase call of this invocation raised
  status,                   \* status returned by process_breaking_news_impact
  existing,                 \* local existing.data of store_prediction_in_supabase
  store_fixture,            \* argument fixture_id of store_prediction_in_supabase
  (* DedupSpec: the processed_url guard (scraper_fetcher.py) *)
  processed_url,            \* the links with a Redis key processed_url:<link>
  dedup_errors,             \* a Redis call of the guard has failed
  submissions,              \* number of feed entries taken so far
  task_pc,                  \* position of every scraper task in fetch_and_parse_rss_feed
  link,                     \* local link of fetch_and_parse_rss_feed (0: none)
  (* LogSpec: stream:raw_events and one of its consumer groups *)
  raw_events,               \* Redis stream "stream:raw_events"
  group,                    \* the consumer group looked at
  last_delivered_id,        \* last entry delivered to the group with ">"
  pending,                  \* pending entries list of the group
  acked,                    \* entries acknowledged in the group
  idle,                     \* pending entries outstanding longer than the idle threshold
  consumer_pc,              \* position of every consumer of the group
  message_id,               \* the entry a consumer has in hand (0: none)
  ack_needed,               \* what the processing step of a consumer answered
  analyzer_success,         \* local success of send_to_llm_content_analyzer
  (* ClassifierSpec, RetrySpec: one component calling the reasoning service *)
  component,                \* the component looked at
  llm_pc,                   \* position of the component
  attempt,                  \* loop variable attempt / retries
  calls,                    \* number of calls of the service made so far
  only_transient,           \* every call so far ended in a transient failure
  invalid_response,         \* the response of the service failed validation
  outcome,                  \* how the retry loop ended
  backoff,                  \* seconds of the last sleep between two calls
  breaking_analysis,        \* local breaking_analysis of process_raw_event
  quick_patch_called,       \* process_breaking_news_impact was called for the entry
  raw_event_success,        \* what process_raw_event answered
  raw_event_acked,          \* the entry was acknowledged
  (* DocSpec: table processed_documents (llm_content_analyzer.py, pre_processor.py) *)
  processed_documents,      \* the rows in insertion order, each its document_url
  doc_pc,                   \* position of each analyzer consumer
  doc_url,                  \* document_url of the entry an analyzer consumer has in hand
  (* LinkSpec: one player or coach lookup *)
  response_data,            \* response.data: the registry rows matching the name, in order
  context_team_ids,         \* team ids linked from the same text
  linker,                   \* the function that does the lookup
  link_pc,                  \* position of the lookup
  link_raised,              \* the registry query raised
  link_result,              \* the ids the lookup returned ({}: None or an empty list)
  (* RankSpec: the ranking of the retriever (retriever_builder.py) *)
  chunks,                   \* the matches of the index query, in the order of the answer
  now,                      \* wall clock, in hours
  rankings,                 \* what each call of _rank_and_filter_chunks returned
  (* SearchSpec, IndexSpec: the vector index and the query of the retriever *)
  pinecone,                 \* the entries of the vector index: id and metadata
  match_info,               \* the fixture the retriever is asked about
  query_results,            \* ids of query_results.matches
  search_pc,                \* position of _search_relevant_content
  (* ReasonerSpec: one response of the reasoning service to the reasoner *)
  prediction_json,          \* the parsed response
  prediction_result,        \* what generate_prediction did with it
  (* IndexSpec: the dual write of one document (llm_content_analyzer.py) *)
  document_chunks,          \* rows of table document_chunks, the id of a row its position
  structured_content,       \* chunks held in processed_documents rows: <<row, chunk_index>>
  index_pc,                 \* position of process_event_payload
  embedded,                 \* processed_chunks_for_pinecone: chunks that got an embedding
  link_failed,              \* chunks with an entity lookup that failed
  supabase_chunk_id,        \* chunk_data["supabase_chunk_id"] of each chunk (0: not set)
  update_tasks,             \* update_pinecone_id_in_supabase tasks created and not yet run
  all_chunks_processed_successfully, \* flag of process_event_payload
  runs,                     \* times process_event_payload was entered for the document
  payload_result,           \* what the last run returned ("none" before the first return)
  upsert_result             \* outcome of the batch upsert of the run ("none": not sent)

queueVars == <<queue_fixtures_priority, queue_fixtures_normal, fixtures_scanned, priority_pushes>>
workerVars == <<pc, fixture_id, from_queue, success>>
tableVars == <<ai_predictions, telegram_posts, events_total>>
patchVars == <<qp_pc, event_data, affected_predictions, impact_results, result_index,
               analysis_failed, store_error, status, existing, store_fixture>>
dedupVars == <<processed_url, dedup_errors, submissions, task_pc, link>>
logVars == <<group, last_delivered_id, pending, acked, idle, consumer_pc,
             message_id, ack_needed, analyzer_success>>
llmVars == <<component, llm_pc, attempt, calls, only_transient, invalid_response, outcome,
             backoff, breaking_analysis, quick_patch_called, raw_event_success,
             raw_event_acked>>
docVars == <<processed_documents, doc_pc, doc_url>>
linkVars == <<response_data, context_team_ids, linker, link_pc, link_raised, link_result>>
rankVars == <<chunks, now, rankings>>
contextVars == <<docVars, linkVars, rankVars>>
indexVars == <<pinecone, match_info, query_results, search_pc, prediction_json,
               prediction_result, document_chunks, structured_content, index_pc, embedded,
               link_failed, supabase_chunk_id, update_tasks,
               all_chunks_processed_successfully, runs, payload_result, upsert_result>>
vars == <<queueVars, workerVars, tableVars, patchVars, dedupVars, raw_events, logVars,
          llmVars, contextVars, indexVars>>

(* ------------------------- fixture queues ------------------------------ *)

\* redis RPUSH: append at the tail
rpush(q, x) == Append(q, x)

\* redis LPUSH: insert at the head
lpush(q, x) == <<x>> \o q

\* the elements of a list
Range(q) == {q[i] : i \in 1..Len(q)}

\* scan_fixtures: SADD guards the LPUSH onto the normal queue
add_fixture_ids_to_redis_queue(f) ==
  /\ f \notin fixtures_scanned
  /\ fixtures_scanned' = fixtures_scanned \cup {f}
  /\ queue_fixtures_normal' = lpush(queue_fixtures_normal, f)
  /\ UNCHANGED <<queue_fixtures_priority, priority_pushes, workerVars, tableVars, patchVars>>
  /\ UNCHANGED <<dedupVars, raw_events, logVars>>
  /\ UNCHANGED <<llmVars, contextVars, indexVars>>

\* add_to_priority_queue: RPUSH of a match id named by the classifier
add_to_priority_queue(f) ==
  /\ priority_pushes < MaxPushes
  /\ priority_pushes' = priority_pushes + 1
  /\ queue_fixtures_priority' = rpush(queue_fixtures_priority, f)
  /\ UNCHANGED <<queue_fixtures_normal, fixtures_scanned, workerVars, tableVars, patchVars>>
  /\ UNCHANGED <<dedupVars, raw_events, logVars>>
  /\ UNCHANGED <<llmVars, contextVars, indexVars>>

\* variant of the dispatch decision that serves the normal queue first
dispatch_normal_first(w) ==
  /\ pc[w] = "idle"
  /\ IF queue_fixtures_priority # <<>> /\ queue_fixtures_normal = <<>>
     THEN /\ fixture_id' = [fixture_id EXCEPT ![w] = Head(queue_fixtures_priority)]
          /\ from_queue' = [from_queue EXCEPT ![w] = "priority"]
          /\ queue_fixtures_priority' = Tail(queue_fixtures_priority)
          /\ pc' = [pc EXCEPT ![w] = "process_fixture"]
     ELSE /\ pc' = [pc EXCEPT ![w] = "llen"]
          /\ UNCHANGED <<fixture_id, from_queue, queue_fixtures_priority>>
  /\ UNCHANGED <<queue_fixtures_normal, fixtures_scanned, priority_pushes, success,
                 tableVars, patchVars>>
  /\ UNCHANGED <<dedupVars, raw_events, logVars>>
  /\ UNCHANGED <<llmVars, contextVars, indexVars>>

\* consume_fixtures_queue, the dispatch decision: BLPOP on the priority queue
consume_fixtures_queue_priority(w) ==
  /\ pc[w] = "idle"
  /\ IF queue_fixtures_priority # <<>>
     THEN /\ fixture_id' = [fixture_id EXCEPT ![w] = Head(queue_fixtures_priority)]
          /\ from_queue' = [from_queue EXCEPT ![w] = "priority"]
          /\ queue_fixtures_priority' = Tail(queue_fixtures_priority)
          /\ pc' = [pc EXCEPT ![w] = "process_fixture"]
     ELSE /\ pc' = [pc EXCEPT ![w] = "llen"]
          /\ UNCHANGED <<fixture_id, from_queue, queue_fixtures_priority>>
  /\ UNCHANGED <<queue_fixtures_normal, fixtures_scanned, priority_pushes, success,
                 tableVars, patchVars>>
  /\ UNCHANGED <<dedupVars, raw_events, logVars>>
  /\ UNCHANGED <<llmVars, contextVars, indexVars>>

\* consume_fixtures_queue: LLEN of the normal queue, return False when 0
consume_fixtures_queue_llen(w) ==
  /\ pc[w] = "llen"
  /\ pc' = [pc EXCEPT ![w] = IF Len(queue_fixtures_normal) = 0 THEN "idle" ELSE "blpop"]
  /\ UNCHANGED <<queueVars, fixture_id, from_queue, success, tableVars, patchVars>>
  /\ UNCHANGED <<dedupVars, raw_events, logVars>>
  /\ UNCHANGED <<llmVars, contextVars, indexVars>>

\* consume_fixtures_queue: BLPOP on the normal queue
consume_fixtures_queue_normal(w) ==
  /\ pc[w] = "blpop"
  /\ IF queue_fixtures_normal # <<>>
     THEN /\ fixture_id' = [fixture_id EXCEPT ![w] = Head(queue_fixtures_normal)]
          /\ from_queue' = [from_queue EXCEPT ![w] = "normal"]
          /\ queue_fixtures_normal' = Tail(queue_fixtures_normal)
          /\ pc' = [pc EXCEPT ![w] = "process_fixture"]
     ELSE /\ pc' = [pc EXCEPT ![w] = "idle"]
          /\ UNCHANGED <<fixture_id, from_queue, queue_fixtures_normal>>
  /\ UNCHANGED <<queue_fixtures_priority, fixtures_scanned, priority_pushes, success,
                 tableVars, patchVars>>
  /\ UNCHANGED <<dedupVars, raw_events, logVars>>
  /\ UNCHANGED <<llmVars, contextVars, indexVars>>

\* process_fixture: True unless the scraper task raises
process_fixture(w) ==
  /\ pc[w] = "process_fixture"
  /\ \E ok \in BOOLEAN : success' = [success EXCEPT ![w] = ok]
  /\ pc' = [pc EXCEPT ![w] = "requeue"]
  /\ UNCHANGED <<queueVars, fixture_id, from_queue, tableVars, patchVars>>
  /\ UNCHANGED <<dedupVars, raw_events, logVars>>
  /\ UNCHANGED <<llmVars, contextVars, indexVars>>

\* variant of the re-append that always uses the normal queue
requeue_on_normal(w) ==
  /\ pc[w] = "requeue"
  /\ IF success[w]
     THEN UNCHANGED queue_fixtures_normal
     ELSE queue_fixtures_normal' = rpush(queue_fixtures_normal, fixture_id[w])
  /\ pc' = [pc EXCEPT ![w] = "idle"]
  /\ fixture_id' = [fixture_id EXCEPT ![w] = 0]
  /\ from_queue' = [from_queue EXCEPT ![w] = "none"]
  /\ UNCHANGED <<queue_fixtures_priority, fixtures_scanned, priority_pushes, success,
                 tableVars, patchVars>>
  /\ UNCHANGED <<dedupVars, raw_events, logVars>>
  /\ UNCHANGED <<llmVars, contextVars, indexVars>>

\* consume_fixtures_queue: "if not success": RPUSH the fixture onto its own queue
consume_fixtures_queue_requeue(w) ==
  /\ pc[w] = "requeue"
  /\ IF success[w]
     THEN UNCHANGED <<queue_fixtures_priority, queue_fixtures_normal>>
     ELSE IF from_queue[w] = "priority"
     THEN /\ queue_fixtures_priority' = rpush(queue_fixtures_priority, fixture_id[w])
          /\ UNCHANGED queue_fixtures_normal
     ELSE /\ queue_fixtures_normal' = rpush(queue_fixtures_normal, fixture_id[w])
          /\ UNCHANGED queue_fixtures_priority
  /\ pc' = [pc EXCEPT ![w] = "idle"]
  /\ fixture_id' = [fixture_id EXCEPT ![w] = 0]
  /\ from_queue' = [from_queue EXCEPT ![w] = "none"]
  /\ UNCHANGED <<fixtures_scanned, priority_pushes, success, tableVars, patchVars>>
  /\ UNCHANGED <<dedupVars, raw_events, logVars>>
  /\ UNCHANGED <<llmVars, contextVars, indexVars>>

\* consume_fixtures_queue, "if not success" when the RPUSH raises: the outer
\* except logs the error and the function returns False
consume_fixtures_queue_except(w) ==
  /\ pc[w] = "requeue"
  /\ ~success[w]
  /\ pc' = [pc EXCEPT ![w] = "idle"]
  /\ fixture_id' = [fixture_id EXCEPT ![w] = 0]
  /\ from_queue' = [from_queue EXCEPT ![w] = "none"]
  /\ UNCHANGED <<queueVars, success, tableVars, patchVars>>
  /\ UNCHANGED <<dedupVars, raw_events, logVars>>
  /\ UNCHANGED <<llmVars, contextVars, indexVars>>

\* the worker process dies inside consume_fixtures_queue and is started
\* again: what it had popped is in no queue
worker_loop_crash(w) ==
  /\ pc[w] # "idle"
  /\ pc' = [pc EXCEPT ![w] = "idle"]
  /\ fixture_id' = [fixture_id EXCEPT ![w] = 0]
  /\ from_queue' = [from_queue EXCEPT ![w] = "none"]
  /\ UNCHANGED <<queueVars, success, tableVars, patchVars>>
  /\ UNCHANGED <<dedupVars, raw_events, logVars>>
  /\ UNCHANGED <<llmVars, contextVars, indexVars>>

NoEvent == [id |-> 0, team |-> 0, rule |-> FALSE, requires_update |-> FALSE, timestamp |-> 0]

(* --------------- ai_predictions and the Quick Patch -------------------- *)

\* table fixtures: fixture f is home_team f against away_team f + 1 and
\* kicks off 30 * f hours from now
fixtures_table(f) ==
  [fixture_id |-> f, home_team_id |-> f, away_team_id |-> f + 1, event_date |-> 30 * f]

\* breaking events: the team resolved by _extract_entities_from_news (0: none)
\* and the impact rating the reasoning service gives the news
ImpactRatings ==
  [level : {"HIGH", "MEDIUM", "LOW"}, confidence : {IMPACT_THRESHOLD - 1, IMPACT_THRESHOLD},
   requires_update : BOOLEAN]

\* ids of the rows of ai_predictions, in generated_at order
PredictionIds == 1..Len(ai_predictions)

\* _parse_impact_analysis, the condition of the rule: impact_level HIGH or
\* MEDIUM and confidence at or above the threshold
impact_rule(rating) ==
  rating.level \in {"HIGH", "MEDIUM"} /\ rating.confidence >= IMPACT_THRESHOLD

\* _parse_impact_analysis: the rule forces requires_update, otherwise the
\* value of the reasoning service is kept
_parse_impact_analysis(rating) ==
  IF impact_rule(rating) THEN TRUE ELSE rating.requires_update

\* _find_affected_predictions, first query: fixtures of the window whose
\* home_team_id is one of the team ids
affected_fixture_ids(team) ==
  {f \in Fixtures : /\ fixtures_table(f).home_team_id = team
                    /\ fixtures_table(f).event_date > 0
                    /\ fixtures_table(f).event_date < PREDICTION_WINDOW_HOURS}

\* the fixtures of the lookahead window a team plays in, at home or away
FixturesOfTeam(team) ==
  {f \in Fixtures : /\ team \in {fixtures_table(f).home_team_id, fixtures_table(f).away_team_id}
                    /\ fixtures_table(f).event_date > 0
                    /\ fixtures_table(f).event_date < PREDICTION_WINDOW_HOURS}

\* the ids n, n - 1, .. 1
Descending(n) == [i \in 1..n |-> n + 1 - i]

\* _find_affected_predictions, second query: non-stale rows of these fixtures,
\* any type, newest first
find_affected_predictions(team) ==
  LET wanted(i) == /\ ai_predictions[i].fixture_id \in affected_fixture_ids(team)
                   /\ ~ai_predictions[i].stale
  IN SelectSeq(Descending(Len(ai_predictions)), wanted)

\* _analyze_prediction_impact: the parsed rating, or the default when every
\* call of the reasoning service failed
_analyze_prediction_impact(rating, failed) ==
  IF failed THEN FALSE ELSE _parse_impact_analysis(rating)

\* process_raw_event on a tweet the classifier rates as a trigger calls
\* process_breaking_news_impact: steps 1 to 3, the entity check, the
\* candidate query (an error of the store yields the empty list) and the
\* rating of every candidate, which answers "no update" for a candidate
\* when its calls of the reasoning service failed
process_breaking_news_impact(w, team, rating) ==
  /\ qp_pc[w] = "idle"
  /\ events_total < MaxEvents
  /\ events_total' = events_total + 1
  /\ event_data' = [event_data EXCEPT ![w] =
        [id |-> events_total + 1, team |-> team, rule |-> impact_rule(rating),
         requires_update |-> _parse_impact_analysis(rating),
         timestamp |-> Len(ai_predictions)]]
  /\ \E ok \in BOOLEAN :
       LET found == IF ok /\ team # 0 THEN find_affected_predictions(team) ELSE <<>>
       IN \E failed \in SUBSET (1..Len(found)) :
          LET requires_update(p) ==
                _analyze_prediction_impact(rating, \E i \in failed : found[i] = p)
              results == SelectSeq(found, requires_update)
          IN
          /\ (team = 0 => ok)
          /\ affected_predictions' = [affected_predictions EXCEPT ![w] = found]
          /\ impact_results' = [impact_results EXCEPT ![w] = results]
          /\ store_error' = [store_error EXCEPT ![w] = ~ok]
          /\ analysis_failed' = [analysis_failed EXCEPT ![w] = failed]
          /\ IF results = <<>>
             THEN /\ status' = [status EXCEPT ![w] =
                        IF team = 0 THEN "no_entities"
                        ELSE IF found = <<>> THEN "no_predictions" ELSE "no_impact"]
                  /\ qp_pc' = [qp_pc EXCEPT ![w] = "returned"]
                  /\ UNCHANGED result_index
             ELSE /\ result_index' = [result_index EXCEPT ![w] = 1]
                  /\ qp_pc' = [qp_pc EXCEPT ![w] = "mark_stale"]
                  /\ UNCHANGED status
  /\ UNCHANGED <<queueVars, workerVars, ai_predictions, telegram_posts, existing,
                 store_fixture>>
  /\ UNCHANGED <<dedupVars, raw_events, logVars>>
  /\ UNCHANGED <<llmVars, contextVars, indexVars>>

\* the prediction the loop of step 4 is at
prediction(w) == impact_results[w][result_index[w]]

\* process_breaking_news_impact, step 4: the loop goes on to the next result
\* or the call returns "success"
next_result(w) ==
  IF result_index[w] < Len(impact_results[w])
  THEN /\ result_index' = [result_index EXCEPT ![w] = result_index[w] + 1]
       /\ qp_pc' = [qp_pc EXCEPT ![w] = "mark_stale"]
       /\ UNCHANGED status
  ELSE /\ status' = [status EXCEPT ![w] = "success"]
       /\ qp_pc' = [qp_pc EXCEPT ![w] = "returned"]
       /\ UNCHANGED result_index

\* variant of the update in which an error of the store ends the whole call
trigger_mark_stale_abort(w) ==
  /\ qp_pc[w] = "mark_stale"
  /\ \E ok \in BOOLEAN :
       IF ok
       THEN /\ ai_predictions' = [ai_predictions EXCEPT ![prediction(w)].stale = TRUE]
            /\ \E pushed \in BOOLEAN :
                 IF pushed
                 THEN /\ queue_fixtures_priority' =
                           rpush(queue_fixtures_priority,
                                 ai_predictions[prediction(w)].fixture_id)
                      /\ qp_pc' = [qp_pc EXCEPT ![w] = "insert"]
                      /\ UNCHANGED <<store_error, status, result_index>>
                 ELSE /\ store_error' = [store_error EXCEPT ![w] = TRUE]
                      /\ status' = [status EXCEPT ![w] = "success"]
                      /\ qp_pc' = [qp_pc EXCEPT ![w] = "returned"]
                      /\ UNCHANGED <<queue_fixtures_priority, result_index>>
       ELSE /\ store_error' = [store_error EXCEPT ![w] = TRUE]
            /\ status' = [status EXCEPT ![w] = "success"]
            /\ qp_pc' = [qp_pc EXCEPT ![w] = "returned"]
            /\ UNCHANGED <<ai_predictions, queue_fixtures_priority, result_index>>
  /\ UNCHANGED <<queue_fixtures_normal, fixtures_scanned, priority_pushes, workerVars,
                 telegram_posts, events_total, event_data, affected_predictions,
                 impact_results, analysis_failed, existing, store_fixture>>
  /\ UNCHANGED <<dedupVars, raw_events, logVars>>
  /\ UNCHANGED <<llmVars, contextVars, indexVars>>

\* _trigger_prediction_update, steps 1 and 2: update stale = True of the row,
\* then RPUSH of its fixture onto the priority queue; an error of the store
\* or, after the update, of the queue service ends the update of this
\* prediction
trigger_mark_stale(w) ==
  /\ qp_pc[w] = "mark_stale"
  /\ \E ok \in BOOLEAN :
       IF ok
       THEN /\ ai_predictions' = [ai_predictions EXCEPT ![prediction(w)].stale = TRUE]
            /\ \E pushed \in BOOLEAN :
                 IF pushed
                 THEN /\ queue_fixtures_priority' =
                           rpush(queue_fixtures_priority,
                                 ai_predictions[prediction(w)].fixture_id)
                      /\ qp_pc' = [qp_pc EXCEPT ![w] = "insert"]
                      /\ UNCHANGED <<store_error, status, result_index>>
                 ELSE /\ store_error' = [store_error EXCEPT ![w] = TRUE]
                      /\ next_result(w)
                      /\ UNCHANGED queue_fixtures_priority
       ELSE /\ store_error' = [store_error EXCEPT ![w] = TRUE]
            /\ next_result(w)
            /\ UNCHANGED <<ai_predictions, queue_fixtures_priority>>
  /\ UNCHANGED <<queue_fixtures_normal, fixtures_scanned, priority_pushes, workerVars,
                 telegram_posts, events_total, event_data, affected_predictions,
                 impact_results, analysis_failed, existing, store_fixture>>
  /\ UNCHANGED <<dedupVars, raw_events, logVars>>
  /\ UNCHANGED <<llmVars, contextVars, indexVars>>

\* _trigger_prediction_update, steps 3 and 4: insert of the breaking_update
\* row, then XADD of the notification; an error of the store skips the XADD
trigger_insert(w) ==
  /\ qp_pc[w] = "insert"
  /\ \E ok \in BOOLEAN :
       IF ok /\ Len(ai_predictions) < MaxPredictions
       THEN /\ ai_predictions' = Append(ai_predictions,
                 [fixture_id |-> ai_predictions[prediction(w)].fixture_id,
                  type |-> "breaking_update", stale |-> FALSE])
            /\ telegram_posts' = Append(telegram_posts,
                 [fixture_id |-> ai_predictions[prediction(w)].fixture_id,
                  event |-> event_data[w].id])
            /\ UNCHANGED store_error
       ELSE /\ store_error' = [store_error EXCEPT ![w] = TRUE]
            /\ UNCHANGED <<ai_predictions, telegram_posts>>
  /\ next_result(w)
  /\ UNCHANGED <<queueVars, workerVars, events_total, event_data, affected_predictions,
                 impact_results, analysis_failed, existing, store_fixture>>
  /\ UNCHANGED <<dedupVars, raw_events, logVars>>
  /\ UNCHANGED <<llmVars, contextVars, indexVars>>

\* the ids of a set of fixtures in ascending order
ascending(fs) == SelectSeq([f \in 1..NumFixtures |-> f], LAMBDA f : f \in fs)

\* process_raw_event on a tweet the classifier rates as a trigger and for
\* which it names affected matches: add_to_priority_queue appends every
\* match id (an error of the queue service is logged), then
\* process_breaking_news_impact is called as above
process_raw_event_breaking(w, affected_matches, team, rating) ==
  /\ qp_pc[w] = "idle"
  /\ events_total < MaxEvents
  /\ events_total' = events_total + 1
  /\ event_data' = [event_data EXCEPT ![w] =
        [id |-> events_total + 1, team |-> team, rule |-> impact_rule(rating),
         requires_update |-> _parse_impact_analysis(rating),
         timestamp |-> Len(ai_predictions)]]
  /\ \E ok \in BOOLEAN :
       LET found == IF ok /\ team # 0 THEN find_affected_predictions(team) ELSE <<>>
       IN \E failed \in SUBSET (1..Len(found)) :
          LET requires_update(p) ==
                _analyze_prediction_impact(rating, \E i \in failed : found[i] = p)
              results == SelectSeq(found, requires_update)
          IN
          /\ (team = 0 => ok)
          /\ affected_predictions' = [affected_predictions EXCEPT ![w] = found]
          /\ impact_results' = [impact_results EXCEPT ![w] = results]
          /\ store_error' = [store_error EXCEPT ![w] = ~ok]
          /\ analysis_failed' = [analysis_failed EXCEPT ![w] = failed]
          /\ IF results = <<>>
             THEN /\ status' = [status EXCEPT ![w] =
                        IF team = 0 THEN "no_entities"
                        ELSE IF found = <<>> THEN "no_predictions" ELSE "no_impact"]
                  /\ qp_pc' = [qp_pc EXCEPT ![w] = "returned"]
                  /\ UNCHANGED result_index
             ELSE /\ result_index' = [result_index EXCEPT ![w] = 1]
                  /\ qp_pc' = [qp_pc EXCEPT ![w] = "mark_stale"]
                  /\ UNCHANGED status
  /\ \E ok \in BOOLEAN :
       queue_fixtures_priority' =
         IF ok THEN queue_fixtures_priority \o ascending(affected_matches)
         ELSE queue_fixtures_priority
  /\ UNCHANGED <<queue_fixtures_normal, fixtures_scanned, priority_pushes, workerVars,
                 ai_predictions, telegram_posts, existing, store_fixture>>
  /\ UNCHANGED <<dedupVars, raw_events, logVars>>
  /\ UNCHANGED <<llmVars, contextVars, indexVars>>

\* process_raw_event goes on after process_breaking_news_impact returned
process_breaking_news_impact_return(w) ==
  /\ qp_pc[w] = "returned"
  /\ qp_pc' = [qp_pc EXCEPT ![w] = "idle"]
  /\ event_data' = [event_data EXCEPT ![w] = NoEvent]
  /\ affected_predictions' = [affected_predictions EXCEPT ![w] = <<>>]
  /\ impact_results' = [impact_results EXCEPT ![w] = <<>>]
  /\ result_index' = [result_index EXCEPT ![w] = 0]
  /\ analysis_failed' = [analysis_failed EXCEPT ![w] = {}]
  /\ store_error' = [store_error EXCEPT ![w] = FALSE]
  /\ status' = [status EXCEPT ![w] = "none"]
  /\ UNCHANGED <<queueVars, workerVars, tableVars, existing, store_fixture>>
  /\ UNCHANGED <<dedupVars, raw_events, logVars>>
  /\ UNCHANGED <<llmVars, contextVars, indexVars>>

\* store_prediction_in_supabase: select id where fixture_id
store_prediction_select(w, f) ==
  /\ qp_pc[w] = "idle"
  /\ qp_pc' = [qp_pc EXCEPT ![w] = "store"]
  /\ store_fixture' = [store_fixture EXCEPT ![w] = f]
  /\ existing' = [existing EXCEPT ![w] =
       \E i \in PredictionIds : ai_predictions[i].fixture_id = f]
  /\ UNCHANGED <<queueVars, workerVars, tableVars, event_data, affected_predictions,
                 impact_results, result_index, analysis_failed, store_error, status>>
  /\ UNCHANGED <<dedupVars, raw_events, logVars>>
  /\ UNCHANGED <<llmVars, contextVars, indexVars>>

\* update(prediction_data).eq("fixture_id", f): every row of the fixture
\* takes the type of prediction_data, stale is not part of it
update_fixture_rows(f) ==
  [i \in PredictionIds |->
     IF ai_predictions[i].fixture_id = f
     THEN [ai_predictions[i] EXCEPT !.type = "ai_analysis"]
     ELSE ai_predictions[i]]

\* store_prediction_in_supabase: update when the select found rows, insert
\* otherwise; an error of the store is logged and nothing is written
store_prediction_write(w) ==
  /\ qp_pc[w] = "store"
  /\ \E ok \in BOOLEAN :
       IF ~ok
       THEN UNCHANGED ai_predictions
       ELSE IF existing[w]
       THEN ai_predictions' = update_fixture_rows(store_fixture[w])
       ELSE /\ Len(ai_predictions) < MaxPredictions
            /\ ai_predictions' = Append(ai_predictions,
                 [fixture_id |-> store_fixture[w], type |-> "ai_analysis", stale |-> FALSE])
  /\ qp_pc' = [qp_pc EXCEPT ![w] = "idle"]
  /\ store_fixture' = [store_fixture EXCEPT ![w] = 0]
  /\ existing' = [existing EXCEPT ![w] = FALSE]
  /\ UNCHANGED <<queueVars, workerVars, telegram_posts, events_total, event_data,
                 affected_predictions, impact_results, result_index, analysis_failed,
                 store_error, status>>
  /\ UNCHANGED <<dedupVars, raw_events, logVars>>
  /\ UNCHANGED <<llmVars, contextVars, indexVars>>

\* the rows the read paths select: type "pre-match" of the fixture
pre_match_rows(f) ==
  {i \in PredictionIds : ai_predictions[i].fixture_id = f /\ ai_predictions[i].type = "pre-match"}

\* order("generated_at", desc=True).limit(1)
latest(ids) == CHOOSE i \in ids : \A j \in ids : j <= i

\* get_prediction: "pending" without a row, otherwise the latest row as "ready"
get_prediction(f) ==
  IF pre_match_rows(f) = {}
  THEN [fixture_id |-> f, status |-> "pending", prediction |-> 0]
  ELSE [fixture_id |-> f, status |-> "ready", prediction |-> latest(pre_match_rows(f))]

\* generate_prediction, the freshness check: the id of the latest row when
\* it is not stale (0: generation is queued)
generate_prediction(f) ==
  IF pre_match_rows(f) # {} /\ ~ai_predictions[latest(pre_match_rows(f))].stale
  THEN latest(pre_match_rows(f))
  ELSE 0

\* get_latest_predictions: has_prediction and prediction_id of a fixture
get_latest_predictions(f) ==
  [fixture_id |-> f, has_prediction |-> pre_match_rows(f) # {},
   prediction_id |-> IF pre_match_rows(f) # {} THEN latest(pre_match_rows(f)) ELSE 0]

(* ------------- the processed_url guard of the scraper ------------------ *)

\* fetch_and_parse_rss_feed takes the next entry of a feed: its link
fetch_and_parse_rss_feed(t, u) ==
  /\ task_pc[t] = "idle"
  /\ submissions < MaxSubmissions
  /\ submissions' = submissions + 1
  /\ link' = [link EXCEPT ![t] = u]
  /\ task_pc' = [task_pc EXCEPT ![t] = "check"]
  /\ UNCHANGED <<processed_url, dedup_errors, raw_events>>
  /\ UNCHANGED <<queueVars, workerVars, tableVars, patchVars, logVars>>
  /\ UNCHANGED <<llmVars, contextVars, indexVars>>

\* is_url_processed: EXISTS processed_url:<link>; an error of Redis answers
\* False; a processed link is skipped
is_url_processed(t) ==
  /\ task_pc[t] = "check"
  /\ \E err \in BOOLEAN :
       /\ dedup_errors' = (dedup_errors \/ err)
       /\ IF ~err /\ link[t] \in processed_url
          THEN /\ task_pc' = [task_pc EXCEPT ![t] = "idle"]
               /\ link' = [link EXCEPT ![t] = 0]
          ELSE /\ task_pc' = [task_pc EXCEPT ![t] = "fetch"]
               /\ UNCHANGED link
  /\ UNCHANGED <<processed_url, submissions, raw_events>>
  /\ UNCHANGED <<queueVars, workerVars, tableVars, patchVars, logVars>>
  /\ UNCHANGED <<llmVars, contextVars, indexVars>>

\* fetch_article_html and parse_article_text: without text the entry is
\* skipped and its link is not marked
fetch_article_html(t) ==
  /\ task_pc[t] = "fetch"
  /\ \E ok \in BOOLEAN :
       IF ok
       THEN /\ task_pc' = [task_pc EXCEPT ![t] = "xadd"]
            /\ UNCHANGED link
       ELSE /\ task_pc' = [task_pc EXCEPT ![t] = "idle"]
            /\ link' = [link EXCEPT ![t] = 0]
  /\ UNCHANGED <<processed_url, dedup_errors, submissions, raw_events>>
  /\ UNCHANGED <<queueVars, workerVars, tableVars, patchVars, logVars>>
  /\ UNCHANGED <<llmVars, contextVars, indexVars>>

\* variant of the XADD in which a failed append still goes on to mark the link
xadd_article_mark_on_failure(t) ==
  /\ task_pc[t] = "xadd"
  /\ \E ok \in BOOLEAN :
       /\ raw_events' = IF ok THEN Append(raw_events, [kind |-> "article", url |-> link[t]])
                        ELSE raw_events
       /\ task_pc' = [task_pc EXCEPT ![t] = "mark"]
       /\ UNCHANGED link
  /\ UNCHANGED <<processed_url, dedup_errors, submissions>>
  /\ UNCHANGED <<queueVars, workerVars, tableVars, patchVars, logVars>>
  /\ UNCHANGED <<llmVars, contextVars, indexVars>>

\* XADD of the article onto stream:raw_events as one field "data"; when it
\* fails the link is not marked; the upload of the text to the storage bucket
\* that follows changes nothing the guard reads
xadd_article(t) ==
  /\ task_pc[t] = "xadd"
  /\ \E ok \in BOOLEAN :
       IF ok
       THEN /\ raw_events' = Append(raw_events, [kind |-> "article", url |-> link[t]])
            /\ task_pc' = [task_pc EXCEPT ![t] = "mark"]
            /\ UNCHANGED link
       ELSE /\ task_pc' = [task_pc EXCEPT ![t] = "idle"]
            /\ link' = [link EXCEPT ![t] = 0]
            /\ UNCHANGED raw_events
  /\ UNCHANGED <<processed_url, dedup_errors, submissions>>
  /\ UNCHANGED <<queueVars, workerVars, tableVars, patchVars, logVars>>
  /\ UNCHANGED <<llmVars, contextVars, indexVars>>

\* mark_url_as_processed: SETEX processed_url:<link>; an error of Redis is
\* logged and the link stays unmarked
mark_url_as_processed(t) ==
  /\ task_pc[t] = "mark"
  /\ \E err \in BOOLEAN :
       /\ dedup_errors' = (dedup_errors \/ err)
       /\ processed_url' = IF err THEN processed_url ELSE processed_url \cup {link[t]}
  /\ task_pc' = [task_pc EXCEPT ![t] = "idle"]
  /\ link' = [link EXCEPT ![t] = 0]
  /\ UNCHANGED <<submissions, raw_events>>
  /\ UNCHANGED <<queueVars, workerVars, tableVars, patchVars, logVars>>
  /\ UNCHANGED <<llmVars, contextVars, indexVars>>

(* ------------- the consumer groups of stream:raw_events ---------------- *)

\* the consumer groups that read stream:raw_events
ConsumerGroups == {"worker-group", "group:llm_content_analyzer", "preprocessor-group"}

\* the entries of the stream: a tweet of twitter_fetcher (fields source,
\* payload, ..), an article of scraper_fetcher (one field "data"), a "data"
\* entry without full_text
EntryKinds == {"twitter", "article", "malformed"}

\* the ids of the entries of the stream
EntryIds == 1..Len(raw_events)

\* a fetcher appends an entry
xadd_raw_event(kind) ==
  /\ Len(raw_events) < MaxEvents
  /\ raw_events' = Append(raw_events, [kind |-> kind, url |-> 0])
  /\ UNCHANGED <<group, last_delivered_id, pending, acked, idle, consumer_pc, message_id,
                 ack_needed, analyzer_success>>
  /\ UNCHANGED <<queueVars, workerVars, tableVars, patchVars, processed_url, dedup_errors,
                 submissions, task_pc, link>>
  /\ UNCHANGED <<llmVars, contextVars, indexVars>>

\* xreadgroup with id ">": the next entry never delivered to the group goes
\* to the consumer and into the pending list of the group
xreadgroup(c) ==
  /\ consumer_pc[c] = "poll"
  /\ last_delivered_id < Len(raw_events)
  /\ last_delivered_id' = last_delivered_id + 1
  /\ pending' = pending \cup {last_delivered_id + 1}
  /\ message_id' = [message_id EXCEPT ![c] = last_delivered_id + 1]
  /\ consumer_pc' = [consumer_pc EXCEPT ![c] = "process"]
  /\ UNCHANGED <<group, raw_events, acked, idle, ack_needed, analyzer_success>>
  /\ UNCHANGED <<queueVars, workerVars, tableVars, patchVars, dedupVars>>
  /\ UNCHANGED <<llmVars, contextVars, indexVars>>

\* LLMContentAnalyzer.run_consumer without new messages: xpending_range with
\* the idle threshold, then xclaim onto this consumer
xclaim(c) ==
  /\ group = "group:llm_content_analyzer"
  /\ consumer_pc[c] = "poll"
  /\ last_delivered_id = Len(raw_events)
  /\ idle # {}
  /\ LET id == CHOOSE i \in idle : \A j \in idle : i <= j
     IN /\ idle' = idle \ {id}
        /\ message_id' = [message_id EXCEPT ![c] = id]
  /\ consumer_pc' = [consumer_pc EXCEPT ![c] = "process"]
  /\ UNCHANGED <<group, raw_events, last_delivered_id, pending, acked, ack_needed,
                 analyzer_success>>
  /\ UNCHANGED <<queueVars, workerVars, tableVars, patchVars, dedupVars>>
  /\ UNCHANGED <<llmVars, contextVars, indexVars>>

\* process_raw_event in the worker: a tweet goes through the classifier (an
\* exception there answers False) and process_twitter_content_event, which
\* calls process_event_payload and logs what it answers; an entry without
\* the field source is skipped; both answer True
process_raw_event(c) ==
  /\ group = "worker-group"
  /\ consumer_pc[c] = "process"
  /\ \E raised \in BOOLEAN, indexed \in {"ok", "failed"} :
       IF raw_events[message_id[c]].kind = "twitter"
       THEN IF raised
            THEN /\ ack_needed' = [ack_needed EXCEPT ![c] = "failed"]
                 /\ analyzer_success' = [analyzer_success EXCEPT ![c] = "none"]
            ELSE /\ ack_needed' = [ack_needed EXCEPT ![c] = "success"]
                 /\ analyzer_success' = [analyzer_success EXCEPT ![c] = indexed]
       ELSE /\ ~raised
            /\ indexed = "ok"
            /\ ack_needed' = [ack_needed EXCEPT ![c] = "success"]
            /\ analyzer_success' = [analyzer_success EXCEPT ![c] = "none"]
  /\ consumer_pc' = [consumer_pc EXCEPT ![c] = "ack"]
  /\ UNCHANGED <<group, raw_events, last_delivered_id, pending, acked, idle, message_id>>
  /\ UNCHANGED <<queueVars, workerVars, tableVars, patchVars, dedupVars>>
  /\ UNCHANGED <<llmVars, contextVars, indexVars>>

\* LLMContentAnalyzer.run_consumer: an entry without "data" or without
\* full_text is acknowledged and skipped; otherwise process_event_payload
\* answers True or False (an exception or the timeout count as False)
analyzer_process_message(c) ==
  /\ group = "group:llm_content_analyzer"
  /\ consumer_pc[c] = "process"
  /\ \E ok \in BOOLEAN :
       IF raw_events[message_id[c]].kind = "article"
       THEN ack_needed' = [ack_needed EXCEPT ![c] = IF ok THEN "success" ELSE "failed"]
       ELSE /\ ok
            /\ ack_needed' = [ack_needed EXCEPT ![c] = "skipped"]
  /\ consumer_pc' = [consumer_pc EXCEPT ![c] = "ack"]
  /\ UNCHANGED <<group, raw_events, last_delivered_id, pending, acked, idle, message_id,
                 analyzer_success>>
  /\ UNCHANGED <<queueVars, workerVars, tableVars, patchVars, dedupVars>>
  /\ UNCHANGED <<llmVars, contextVars, indexVars>>

\* PreProcessor.run_consumer: process answers True or False; process_event
\* answers False for a payload that is no JSON or has no full_text
preprocessor_process(c) ==
  /\ group = "preprocessor-group"
  /\ consumer_pc[c] = "process"
  /\ \E ok \in BOOLEAN :
       /\ raw_events[message_id[c]].kind = "malformed" => ~ok
       /\ ack_needed' = [ack_needed EXCEPT ![c] = IF ok THEN "success" ELSE "failed"]
  /\ consumer_pc' = [consumer_pc EXCEPT ![c] = "ack"]
  /\ UNCHANGED <<group, raw_events, last_delivered_id, pending, acked, idle, message_id,
                 analyzer_success>>
  /\ UNCHANGED <<queueVars, workerVars, tableVars, patchVars, dedupVars>>
  /\ UNCHANGED <<llmVars, contextVars, indexVars>>

\* a consumer that acknowledges whatever the processing step answered
ack_regardless(c) ==
  /\ consumer_pc[c] = "ack"
  /\ acked' = acked \cup {message_id[c]}
  /\ pending' = pending \ {message_id[c]}
  /\ idle' = idle \ {message_id[c]}
  /\ consumer_pc' = [consumer_pc EXCEPT ![c] = "poll"]
  /\ message_id' = [message_id EXCEPT ![c] = 0]
  /\ ack_needed' = [ack_needed EXCEPT ![c] = "none"]
  /\ analyzer_success' = [analyzer_success EXCEPT ![c] = "none"]
  /\ UNCHANGED <<group, raw_events, last_delivered_id>>
  /\ UNCHANGED <<queueVars, workerVars, tableVars, patchVars, dedupVars>>
  /\ UNCHANGED <<llmVars, contextVars, indexVars>>

\* the consumer after the processing step: xack when it answered True (or,
\* in the analyzer, when the entry was skipped), nothing otherwise
consumer_ack(c) ==
  /\ consumer_pc[c] = "ack"
  /\ IF ack_needed[c] \in {"success", "skipped"}
     THEN /\ acked' = acked \cup {message_id[c]}
          /\ pending' = pending \ {message_id[c]}
          /\ idle' = idle \ {message_id[c]}
     ELSE UNCHANGED <<acked, pending, idle>>
  /\ consumer_pc' = [consumer_pc EXCEPT ![c] = "poll"]
  /\ message_id' = [message_id EXCEPT ![c] = 0]
  /\ ack_needed' = [ack_needed EXCEPT ![c] = "none"]
  /\ analyzer_success' = [analyzer_success EXCEPT ![c] = "none"]
  /\ UNCHANGED <<group, raw_events, last_delivered_id>>
  /\ UNCHANGED <<queueVars, workerVars, tableVars, patchVars, dedupVars>>
  /\ UNCHANGED <<llmVars, contextVars, indexVars>>

\* a consumer process dies with an entry in hand and is started again: the
\* entry stays in the pending list
consumer_crash(c) ==
  /\ consumer_pc[c] \in {"process", "ack"}
  /\ consumer_pc' = [consumer_pc EXCEPT ![c] = "poll"]
  /\ message_id' = [message_id EXCEPT ![c] = 0]
  /\ ack_needed' = [ack_needed EXCEPT ![c] = "none"]
  /\ analyzer_success' = [analyzer_success EXCEPT ![c] = "none"]
  /\ UNCHANGED <<group, raw_events, last_delivered_id, pending, acked, idle>>
  /\ UNCHANGED <<queueVars, workerVars, tableVars, patchVars, dedupVars>>
  /\ UNCHANGED <<llmVars, contextVars, indexVars>>

\* time passes: a pending entry has been outstanding longer than the idle
\* threshold
idle_threshold_passes(id) ==
  /\ id \in pending
  /\ id \notin idle
  /\ idle' = idle \cup {id}
  /\ UNCHANGED <<group, raw_events, last_delivered_id, pending, acked, consumer_pc,
                 message_id, ack_needed, analyzer_success>>
  /\ UNCHANGED <<queueVars, workerVars, tableVars, patchVars, dedupVars>>
  /\ UNCHANGED <<llmVars, contextVars, indexVars>>

(* ------------- the classifier: BreakingNewsDetector -------------------- *)

\* what the reasoning service can put into a classification response: text
\* with or without a JSON object, with or without the required fields, a
\* score inside or outside 1..10, a known or unknown urgency level
Scores == {0, 1, 5, BREAKING_NEWS_THRESHOLD - 1, BREAKING_NEWS_THRESHOLD, 10, 11}
UrgencyLevels == {"BREAKING", "IMPORTANT", "NORMAL", "URGENT"}
NoJson ==
  [json |-> FALSE, fields |-> FALSE, importance_score |-> 0, urgency_level |-> "NORMAL",
   affected_matches |-> FALSE]
Contents ==
  {NoJson} \cup [json : {TRUE}, fields : BOOLEAN, importance_score : Scores,
                 urgency_level : UrgencyLevels, affected_matches : BOOLEAN]

\* the analysis before the classifier has answered
NoAnalysis ==
  [importance_score |-> 0, urgency_level |-> "NONE", should_trigger_update |-> FALSE,
   affected_matches |-> FALSE]

\* _parse_llm_response, the checks of the response: a JSON object, the
\* required fields, the score an integer of 1..10, a known urgency level
valid_response(content) ==
  /\ content.json
  /\ content.fields
  /\ content.importance_score >= 1
  /\ content.importance_score <= 10
  /\ content.urgency_level \in {"BREAKING", "IMPORTANT", "NORMAL"}

\* _parse_llm_response: the analysis of a valid response, the fallback
\* analysis otherwise
_parse_llm_response(content) ==
  IF valid_response(content)
  THEN [importance_score |-> content.importance_score,
        urgency_level |-> content.urgency_level,
        affected_matches |-> content.affected_matches]
  ELSE [importance_score |-> 5, urgency_level |-> "NORMAL", affected_matches |-> FALSE]

\* _create_default_response
_create_default_response ==
  [importance_score |-> 1, urgency_level |-> "NORMAL", should_trigger_update |-> FALSE,
   affected_matches |-> FALSE]

\* variant of should_trigger that needs a score above the threshold
should_trigger_above(analysis) == analysis.importance_score > BREAKING_NEWS_THRESHOLD

\* analyze_tweet: should_trigger of an analysis
should_trigger(analysis) == analysis.importance_score >= BREAKING_NEWS_THRESHOLD

\* analyze_tweet: the result built from the analysis of _analyze_with_llm
analyze_tweet_result(analysis) ==
  [importance_score |-> analysis.importance_score,
   urgency_level |-> analysis.urgency_level,
   should_trigger_update |-> should_trigger(analysis),
   affected_matches |-> analysis.affected_matches]

\* analyze_tweet up to the call of _analyze_with_llm: a tweet without text
\* gets the default response
analyze_tweet(has_text) ==
  /\ component = "classifier"
  /\ llm_pc = "start"
  /\ IF has_text
     THEN /\ llm_pc' = "call"
          /\ UNCHANGED breaking_analysis
     ELSE /\ llm_pc' = "analyzed"
          /\ breaking_analysis' = _create_default_response
  /\ UNCHANGED <<component, attempt, calls, only_transient, invalid_response, outcome,
                 backoff, quick_patch_called, raw_event_success, raw_event_acked>>
  /\ UNCHANGED <<queueVars, workerVars, tableVars, patchVars, dedupVars, raw_events, logVars,
                 contextVars, indexVars>>

\* _analyze_with_llm, one turn of "for attempt in range(MAX_RETRIES)": the
\* call raises (or the response has no content, which raises in the parser)
\* and is retried after 2 ** attempt seconds, the last time re-raised into
\* analyze_tweet, which answers the default response; or the call answers,
\* the response is parsed and analyze_tweet builds its result
_analyze_with_llm(raised, content) ==
  /\ component = "classifier"
  /\ llm_pc = "call"
  /\ calls' = calls + 1
  /\ IF raised
     THEN /\ IF attempt = MAX_RETRIES - 1
             THEN /\ outcome' = "exhausted"
                  /\ breaking_analysis' = _create_default_response
                  /\ llm_pc' = "analyzed"
                  /\ UNCHANGED <<attempt, backoff>>
             ELSE /\ backoff' = 2 ^ attempt
                  /\ attempt' = attempt + 1
                  /\ UNCHANGED <<outcome, breaking_analysis, llm_pc>>
          /\ UNCHANGED <<only_transient, invalid_response>>
     ELSE /\ outcome' = "returned"
          /\ invalid_response' = ~valid_response(content)
          /\ breaking_analysis' = analyze_tweet_result(_parse_llm_response(content))
          /\ llm_pc' = "analyzed"
          /\ only_transient' = FALSE
          /\ UNCHANGED <<attempt, backoff>>
  /\ UNCHANGED <<component, quick_patch_called, raw_event_success, raw_event_acked>>
  /\ UNCHANGED <<queueVars, workerVars, tableVars, patchVars, dedupVars, raw_events, logVars,
                 contextVars, indexVars>>

\* process_raw_event for a tweet, after analyze_tweet: when the analysis asks
\* for an update the affected matches go onto the priority queue and the
\* Quick Patch Generator is called; the content goes to the indexer; the
\* answer is True
process_raw_event_twitter ==
  /\ component = "classifier"
  /\ llm_pc = "analyzed"
  /\ IF breaking_analysis.should_trigger_update
     THEN /\ queue_fixtures_priority' =
               IF breaking_analysis.affected_matches
               THEN rpush(queue_fixtures_priority, 1)
               ELSE queue_fixtures_priority
          /\ quick_patch_called' = TRUE
     ELSE UNCHANGED <<queue_fixtures_priority, quick_patch_called>>
  /\ raw_event_success' = TRUE
  /\ llm_pc' = "ack"
  /\ UNCHANGED <<component, attempt, calls, only_transient, invalid_response, outcome,
                 backoff, breaking_analysis, raw_event_acked>>
  /\ UNCHANGED <<queue_fixtures_normal, fixtures_scanned, priority_pushes, workerVars,
                 tableVars, patchVars, dedupVars, raw_events, logVars, contextVars, indexVars>>

\* consume_raw_events_stream: "if success: xack"
consume_raw_events_stream_xack ==
  /\ component = "classifier"
  /\ llm_pc = "ack"
  /\ raw_event_acked' = raw_event_success
  /\ llm_pc' = "done"
  /\ UNCHANGED <<component, attempt, calls, only_transient, invalid_response, outcome,
                 backoff, breaking_analysis, quick_patch_called, raw_event_success>>
  /\ UNCHANGED <<queueVars, workerVars, tableVars, patchVars, dedupVars, raw_events, logVars,
                 contextVars, indexVars>>

(* ------------- the retry loops around the reasoning service ------------ *)

\* the components that call the reasoning service in a retry loop
Components == {"classifier", "impact", "segmentation", "embedding", "prediction"}

\* how one call of the service can end: a transient failure (rate limit,
\* timeout, API error), any other exception, a response that does not parse
\* or validate, a usable response
CallOutcomes == {"transient", "unexpected", "invalid", "answer"}

\* variant of the loop that allows one more turn
while_retries_one_more(call, retry_invalid) ==
  /\ llm_pc = "call"
  /\ calls' = calls + 1
  /\ only_transient' = (only_transient /\ call = "transient")
  /\ invalid_response' = (invalid_response \/ call = "invalid")
  /\ IF call = "transient" \/ (call = "invalid" /\ retry_invalid)
     THEN /\ attempt' = attempt + 1
          /\ backoff' = IF call = "transient" THEN 2 ^ attempt ELSE backoff
          /\ IF attempt + 1 < OPENAI_MAX_RETRIES + 1
             THEN UNCHANGED <<llm_pc, outcome>>
             ELSE /\ llm_pc' = "returned"
                  /\ outcome' = "exhausted"
     ELSE /\ llm_pc' = "returned"
          /\ outcome' = IF call = "answer" THEN "returned" ELSE "aborted"
          /\ UNCHANGED <<attempt, backoff>>
  /\ UNCHANGED <<component, breaking_analysis, quick_patch_called, raw_event_success,
                 raw_event_acked>>
  /\ UNCHANGED <<queueVars, workerVars, tableVars, patchVars, dedupVars, raw_events, logVars,
                 contextVars, indexVars>>

\* one turn of "while retries < OPENAI_MAX_RETRIES" as _call_openai_llm and
\* _generate_embedding write it: a transient failure sleeps
\* OPENAI_RETRY_DELAY_SECONDS * 2 ** retries and counts, every other end of
\* the call returns at once; after the loop the function returns None
while_retries(call, retry_invalid) ==
  /\ llm_pc = "call"
  /\ calls' = calls + 1
  /\ only_transient' = (only_transient /\ call = "transient")
  /\ invalid_response' = (invalid_response \/ call = "invalid")
  /\ IF call = "transient" \/ (call = "invalid" /\ retry_invalid)
     THEN /\ attempt' = attempt + 1
          /\ backoff' = IF call = "transient" THEN 2 ^ attempt ELSE backoff
          /\ IF attempt + 1 < OPENAI_MAX_RETRIES
             THEN UNCHANGED <<llm_pc, outcome>>
             ELSE /\ llm_pc' = "returned"
                  /\ outcome' = "exhausted"
     ELSE /\ llm_pc' = "returned"
          /\ outcome' = IF call = "answer" THEN "returned" ELSE "aborted"
          /\ UNCHANGED <<attempt, backoff>>
  /\ UNCHANGED <<component, breaking_analysis, quick_patch_called, raw_event_success,
                 raw_event_acked>>
  /\ UNCHANGED <<queueVars, workerVars, tableVars, patchVars, dedupVars, raw_events, logVars,
                 contextVars, indexVars>>

\* LLMContentAnalyzer._call_openai_llm (segmentation)
_call_openai_llm(call) ==
  /\ component = "segmentation"
  /\ while_retries(call, FALSE)

\* LLMContentAnalyzer._generate_embedding; a response is always usable
_generate_embedding(call) ==
  /\ component = "embedding"
  /\ call # "invalid"
  /\ while_retries(call, FALSE)

\* LLMReasoner.generate_prediction: a response that is no JSON or has not
\* the structure of a prediction counts as a turn too, without sleeping
generate_prediction_llm(call) ==
  /\ component = "prediction"
  /\ while_retries(call, TRUE)

\* QuickPatchGenerator._analyze_prediction_impact, one turn of "for attempt
\* in range(MAX_RETRIES)": any exception of the call is retried after
\* 2 ** attempt seconds, the last one is re-raised into the handler of the
\* function, which answers the rating "no update"
_analyze_prediction_impact_llm(raised) ==
  /\ component = "impact"
  /\ llm_pc = "call"
  /\ calls' = calls + 1
  /\ IF raised
     THEN /\ IF attempt = QUICK_PATCH_MAX_RETRIES - 1
             THEN /\ outcome' = "exhausted"
                  /\ llm_pc' = "returned"
                  /\ UNCHANGED <<attempt, backoff>>
             ELSE /\ backoff' = 2 ^ attempt
                  /\ attempt' = attempt + 1
                  /\ UNCHANGED <<outcome, llm_pc>>
          /\ UNCHANGED only_transient
     ELSE /\ outcome' = "returned"
          /\ llm_pc' = "returned"
          /\ only_transient' = FALSE
          /\ UNCHANGED <<attempt, backoff>>
  /\ UNCHANGED <<component, invalid_response, breaking_analysis, quick_patch_called,
                 raw_event_success, raw_event_acked>>
  /\ UNCHANGED <<queueVars, workerVars, tableVars, patchVars, dedupVars, raw_events, logVars,
                 contextVars, indexVars>>

(* ---------------------- processed_documents ---------------------------- *)

\* rows of processed_documents whose document_url is u
rows_of(u) == {i \in 1..Len(processed_documents) : processed_documents[i] = u}

\* process_event_payload up to the call of _get_or_create_processed_document:
\* the entry has a url and a text and the service answered with chunks
process_event_payload(c, u) ==
  /\ doc_pc[c] = "idle"
  /\ doc_pc' = [doc_pc EXCEPT ![c] = "select"]
  /\ doc_url' = [doc_url EXCEPT ![c] = u]
  /\ UNCHANGED processed_documents
  /\ UNCHANGED <<linkVars, rankVars>>
  /\ UNCHANGED <<queueVars, workerVars, tableVars, patchVars, dedupVars, raw_events, logVars>>
  /\ UNCHANGED <<llmVars, indexVars>>

\* _get_or_create_processed_document, the select by document_url: a row
\* found is returned, a query that raised returns None, otherwise the
\* insert follows in a second request
_get_or_create_processed_document_select(c, raised) ==
  /\ doc_pc[c] = "select"
  /\ doc_pc' = [doc_pc EXCEPT ![c] =
                  IF raised \/ rows_of(doc_url[c]) # {} THEN "idle" ELSE "insert"]
  /\ doc_url' = [doc_url EXCEPT ![c] =
                   IF raised \/ rows_of(doc_url[c]) # {} THEN 0 ELSE @]
  /\ UNCHANGED processed_documents
  /\ UNCHANGED <<linkVars, rankVars>>
  /\ UNCHANGED <<queueVars, workerVars, tableVars, patchVars, dedupVars, raw_events, logVars>>
  /\ UNCHANGED <<llmVars, indexVars>>

\* _get_or_create_processed_document, the insert: a new row, or None when
\* the request failed
_get_or_create_processed_document_insert(c, ok) ==
  /\ doc_pc[c] = "insert"
  /\ ok => Len(processed_documents) < MaxDocuments
  /\ processed_documents' =
       IF ok THEN Append(processed_documents, doc_url[c]) ELSE processed_documents
  /\ doc_pc' = [doc_pc EXCEPT ![c] = "idle"]
  /\ doc_url' = [doc_url EXCEPT ![c] = 0]
  /\ UNCHANGED <<linkVars, rankVars>>
  /\ UNCHANGED <<queueVars, workerVars, tableVars, patchVars, dedupVars, raw_events, logVars>>
  /\ UNCHANGED <<llmVars, indexVars>>

\* store_to_supabase_processed_document of the pre-processor: an insert
\* with no select before it
store_to_supabase_processed_document(u) ==
  /\ Len(processed_documents) < MaxDocuments
  /\ processed_documents' = Append(processed_documents, u)
  /\ UNCHANGED <<doc_pc, doc_url>>
  /\ UNCHANGED <<linkVars, rankVars>>
  /\ UNCHANGED <<queueVars, workerVars, tableVars, patchVars, dedupVars, raw_events, logVars>>
  /\ UNCHANGED <<llmVars, indexVars>>

(* ------------------------- entity linker ------------------------------- *)

\* team ids of the registry; 0 is a row with no team
LinkTeams == 0..NumLinkTeams

\* a registry row: its current_team_id and the team of its
\* meta_data.statistics entry
Candidates == [current_team_id : LinkTeams, statistics_team : LinkTeams]

\* the answers of the ilike query: up to MaxCandidates rows, the row at
\* position i having player_id i
Responses == UNION {[1..n -> Candidates] : n \in 0..MaxCandidates}

Linkers == {"_link_player", "_link_coach", "_find_player_ids_from_entities"}

\* the value None
None == 0

\* the rows whose current_team_id is in the team context
current_in_context(data, context) ==
  {i \in 1..Len(data) : data[i].current_team_id \in context}

\* the smallest element of a non-empty set of positions
first(positions) == CHOOSE i \in positions : \A j \in positions : i <= j

\* _link_player: the first row of the answer whose current team is in the
\* context, otherwise the first row, None when the answer is empty
_link_player(data, context) ==
  IF data = <<>> THEN None
  ELSE IF context # {} /\ current_in_context(data, context) # {}
       THEN first(current_in_context(data, context))
       ELSE 1

\* _link_coach: the same steps on the table coaches
_link_coach(data, context) ==
  IF data = <<>> THEN None
  ELSE IF context # {} /\ current_in_context(data, context) # {}
       THEN first(current_in_context(data, context))
       ELSE 1

\* is_in_context_team of the pre-processor: the current team, then the
\* teams of meta_data.statistics
is_in_context_team(player_record, context) ==
  \/ player_record.current_team_id # 0 /\ player_record.current_team_id \in context
  \/ player_record.statistics_team \in context

\* _find_player_ids_from_entities for one PERSON name: with a context, every
\* row in the context and nothing else; with no context, every row
_find_player_ids_from_entities(data, context) ==
  IF context # {}
  THEN {i \in 1..Len(data) : is_in_context_team(data[i], context)}
  ELSE 1..Len(data)

\* one lookup: the query, then the choice among its rows; a query that
\* raised gives None (an empty list in the pre-processor)
link_lookup(raised) ==
  /\ link_pc = "query"
  /\ link_pc' = "returned"
  /\ link_raised' = raised
  /\ link_result' =
       IF raised THEN {}
       ELSE IF linker = "_find_player_ids_from_entities"
            THEN _find_player_ids_from_entities(response_data, context_team_ids)
            ELSE LET id == IF linker = "_link_player"
                           THEN _link_player(response_data, context_team_ids)
                           ELSE _link_coach(response_data, context_team_ids)
                 IN IF id = None THEN {} ELSE {id}
  /\ UNCHANGED <<response_data, context_team_ids, linker>>
  /\ UNCHANGED <<docVars, rankVars>>
  /\ UNCHANGED <<queueVars, workerVars, tableVars, patchVars, dedupVars, raw_events, logVars>>
  /\ UNCHANGED <<llmVars, indexVars>>

(* ------------------------ context retriever ---------------------------- *)

\* importance_score of a chunk
Importances == {3, 4}

\* the words calculate_rank_score looks for in the lower-cased chunk_type
Keywords == {"injury", "transfer", "team news", "strategy", "pre-match", "performance"}

\* a chunk_type, as the set of those words it holds: the types of the
\* segmentation prompt, and one free text naming a transfer and an injury
ChunkTypes ==
  { {"injury"}, {"transfer"}, {"team news", "strategy"}, {"pre-match"},
    {"performance"}, {}, {"injury", "transfer"} }

\* document_timestamp of a chunk: an ISO date (hours since the epoch of the
\* model), or a value with no date in it (absent, a number, a malformed text)
DocumentTimestamps ==
  {[iso |-> FALSE, hours |-> 0]} \cup {[iso |-> TRUE, hours |-> h] : h \in {0, 100}}

ChunkMetadata ==
  [importance_score : Importances, chunk_type : ChunkTypes,
   document_timestamp : DocumentTimestamps]

\* the clock readings looked at, in hours
Clock == {90, 120, 130, 400}

\* type_bonus of calculate_rank_score: the first branch whose word occurs
type_bonus(chunk_type) ==
  IF "injury" \in chunk_type THEN 15
  ELSE IF "transfer" \in chunk_type THEN 10
  ELSE IF "team news" \in chunk_type \/ "strategy" \in chunk_type THEN 12
  ELSE IF "pre-match" \in chunk_type THEN 8
  ELSE IF "performance" \in chunk_type THEN 5
  ELSE 0

\* (datetime.now(tz) - doc_date).days: whole days, rounded down
age_days(document_timestamp, clock) == (clock - document_timestamp.hours) \div 24

\* age_penalty of calculate_rank_score: 0 with no readable date
age_penalty(document_timestamp, clock) ==
  IF ~document_timestamp.iso THEN 0
  ELSE IF age_days(document_timestamp, clock) < 10
       THEN age_days(document_timestamp, clock) ELSE 10

calculate_rank_score(metadata, clock) ==
  metadata.importance_score * 20 + type_bonus(metadata.chunk_type)
    - age_penalty(metadata.document_timestamp, clock)

\* sorted(chunks, key=calculate_rank_score, reverse=True): by falling score,
\* chunks of equal score in the order they came in
sorted(cs, clock) ==
  LET n == Len(cs)
      score(i) == calculate_rank_score(cs[i], clock)
      before(i, j) == score(i) > score(j) \/ (score(i) = score(j) /\ i < j)
  IN CHOOSE p \in [1..n -> 1..n] :
       /\ \A a, b \in 1..n : a # b => p[a] # p[b]
       /\ \A a, b \in 1..n : a < b => before(p[a], p[b])

\* the value of _rank_and_filter_chunks: the first TOP_CHUNKS_LIMIT chunks of
\* the sorted list, each with the score it was sorted by
ranked_chunks(cs, clock) ==
  LET p == sorted(cs, clock)
      top == IF Len(cs) < TOP_CHUNKS_LIMIT THEN Len(cs) ELSE TOP_CHUNKS_LIMIT
  IN [k \in 1..top |-> [chunk |-> p[k], score |-> calculate_rank_score(cs[p[k]], clock)]]

\* one call of _rank_and_filter_chunks on the matches of the index
_rank_and_filter_chunks ==
  /\ Len(rankings) < MaxRankCalls
  /\ rankings' = Append(rankings, ranked_chunks(chunks, now))
  /\ UNCHANGED <<chunks, now>>
  /\ UNCHANGED <<docVars, linkVars>>
  /\ UNCHANGED <<queueVars, workerVars, tableVars, patchVars, dedupVars, raw_events, logVars>>
  /\ UNCHANGED <<llmVars, indexVars>>

\* time passes between two calls; the index is not written
clock_advances(t) ==
  /\ t > now
  /\ now' = t
  /\ UNCHANGED <<chunks, rankings>>
  /\ UNCHANGED <<docVars, linkVars>>
  /\ UNCHANGED <<queueVars, workerVars, tableVars, patchVars, dedupVars, raw_events, logVars>>
  /\ UNCHANGED <<llmVars, indexVars>>

(* ------------- the vector index and the query of the retriever --------- *)

\* metadata of an index entry in the fields the query filters on: the list
\* linked_team_ids ({}: no such field) and the number document_timestamp, in
\* hours (<<>>: no such field)
VectorMetadata ==
  [linked_team_ids : {{}, {1}, {3}, {2, 3}},
   document_timestamp : {<<>>, <<63>>, <<64>>, <<400>>, <<401>>}]

\* the fixtures asked about: teams 1 and 2, kickoff at hour 400 or no event_date
MatchInfos ==
  [home_team_id : {1}, away_team_id : {2}, event_date : {<<>>, <<400>>}]

\* team_filter of _search_relevant_content: an entry linked to the home or the
\* away team whose document_timestamp is at or after the cutoff, the cutoff
\* days_back before the kickoff, or before the clock with no event_date
team_filter(v, info, clock) ==
  LET cutoff_timestamp ==
        IF info.event_date # <<>>
        THEN info.event_date[1] - 24 * DEFAULT_DAYS_BACK
        ELSE clock - 24 * DEFAULT_DAYS_BACK
  IN /\ \/ info.home_team_id \in v.linked_team_ids
        \/ info.away_team_id \in v.linked_team_ids
     /\ v.document_timestamp # <<>>
     /\ v.document_timestamp[1] >= cutoff_timestamp

\* _search_relevant_content: the entries passing the filter, at most top_k of
\* them; an empty list when the query raised
_search_relevant_content(raised) ==
  /\ search_pc = "query"
  /\ IF raised
     THEN /\ query_results' = {}
          /\ search_pc' = "failed"
     ELSE /\ \E matches \in SUBSET {v.id : v \in {x \in pinecone : team_filter(x, match_info, now)}} :
               /\ \/ Cardinality(matches) = MAX_CHUNKS_PER_SEARCH
                  \/ matches = {v.id : v \in {x \in pinecone : team_filter(x, match_info, now)}}
               /\ Cardinality(matches) <= MAX_CHUNKS_PER_SEARCH
               /\ query_results' = matches
          /\ search_pc' = "returned"
  /\ UNCHANGED <<pinecone, match_info, prediction_json, prediction_result, document_chunks,
                 structured_content, index_pc, embedded, link_failed, supabase_chunk_id,
                 update_tasks, all_chunks_processed_successfully, runs, payload_result, upsert_result>>
  /\ UNCHANGED <<queueVars, workerVars, tableVars, patchVars, dedupVars, raw_events, logVars,
                 llmVars, contextVars>>

(* --------------------- the prediction reasoner ------------------------- *)

\* a bet of value_bets: whether it is an object, which of its required
\* fields it lacks, and its recommended_probability in hundredths
ValueBets ==
  [is_dict : BOOLEAN, missing : {"none", "confidence"}, recommended_probability : {58, 158}]

\* the parsed responses of the reasoning service: which required field is
\* missing, the types of value_bets and confidence_score, and their values
PredictionResponses ==
  [missing : {"none", "chain_of_thought", "final_prediction", "confidence_score", "value_bets"},
   value_bets_is_list : BOOLEAN,
   value_bets : UNION {[1..n -> ValueBets] : n \in 0..MaxBets},
   confidence_is_number : BOOLEAN,
   confidence_score : {87, 187}]

NoPrediction ==
  [missing |-> "none", value_bets_is_list |-> TRUE, value_bets |-> <<>>,
   confidence_is_number |-> TRUE, confidence_score |-> 87]

\* _validate_prediction_structure: the four required fields, value_bets a
\* list, confidence_score a number, every bet an object with its four fields
_validate_prediction_structure(response) ==
  /\ response.missing = "none"
  /\ response.value_bets_is_list
  /\ response.confidence_is_number
  /\ \A i \in 1..Len(response.value_bets) :
       /\ response.value_bets[i].is_dict
       /\ response.value_bets[i].missing = "none"

\* generate_prediction from the parsed response on: a response that passes
\* the validation is returned, any other one costs a retry
generate_prediction_validate ==
  /\ prediction_result = "none"
  /\ prediction_result' =
       IF _validate_prediction_structure(prediction_json) THEN "returned" ELSE "retry"
  /\ UNCHANGED <<pinecone, match_info, query_results, search_pc, prediction_json,
                 document_chunks, structured_content, index_pc, embedded, link_failed,
                 supabase_chunk_id, update_tasks, all_chunks_processed_successfully, runs,
                 payload_result, upsert_result>>
  /\ UNCHANGED <<queueVars, workerVars, tableVars, patchVars, dedupVars, raw_events, logVars,
                 llmVars, contextVars>>

(* -------------------- the dual write of a document --------------------- *)

\* chunk_index of the chunks of the document
ChunkIndexes == 1..NumChunks

\* url of the document, the same in every entry that carries it
document_url == 1

\* article_timestamp_iso of the document, in hours: inside the retrieval
\* window of the fixture of IndexInit
article_timestamp == 399

\* the team the segmentation names in a chunk (linked_team_names)
linked_team_names(k) == IF k = 1 THEN 1 ELSE 3

\* linked_team_ids of a chunk: _link_entity answers None for a name whose
\* lookup raised or timed out, and the name is left out
linked_team_ids(k) == IF k \in link_failed THEN {} ELSE {linked_team_names(k)}

\* id of a vector the analyzer writes: str(supabase_chunk_id); the
\* pre-processor writes "<inserted_doc_id>_<chunk_idx>" (doc > 0)
vector_id(doc, chunk) == [doc |-> doc, chunk |-> chunk]

\* pinecone_meta of the analyzer: linked_team_ids as strings, the form the
\* retriever asks for; no document_timestamp among its keys
pinecone_meta(k) ==
  [id |-> vector_id(0, supabase_chunk_id[k]), linked_team_ids |-> linked_team_ids(k),
   document_timestamp |-> <<>>]

\* pinecone_metadata of the pre-processor: the team ids are stored under
\* relevant_team_ids, so linked_team_ids and document_timestamp are absent
pinecone_metadata(doc, k) ==
  [id |-> vector_id(doc, k), linked_team_ids |-> {}, document_timestamp |-> <<>>]

\* process_event_payload, step 3: the loop over the chunks. A failed entity
\* lookup is swallowed by _link_entity; a chunk without embedding clears the
\* flag and stays out of processed_chunks_for_pinecone
process_event_payload_chunks(failed_lookups, with_embedding) ==
  /\ index_pc = "idle"
  /\ runs < MaxRuns
  /\ runs' = runs + 1
  /\ link_failed' = failed_lookups
  /\ embedded' = with_embedding
  /\ all_chunks_processed_successfully' = (with_embedding = ChunkIndexes)
  /\ supabase_chunk_id' = [k \in ChunkIndexes |-> 0]
  /\ payload_result' = "none"
  /\ upsert_result' = "none"
  /\ index_pc' = "save"
  /\ UNCHANGED <<pinecone, match_info, query_results, search_pc, prediction_json,
                 prediction_result, document_chunks, structured_content, update_tasks>>
  /\ UNCHANGED <<queueVars, workerVars, tableVars, patchVars, dedupVars, raw_events, logVars,
                 llmVars, contextVars>>

\* the rows _save_single_chunk inserts for the chunks of inserted, in
\* chunk order, behind the rows the table holds; linked_team_ids stands for
\* the rows of chunk_linked_teams, taken as written with the chunk
RECURSIVE inserted_rows(_)
inserted_rows(inserted) ==
  IF inserted = {} THEN <<>>
  ELSE LET k == CHOOSE x \in inserted : \A y \in inserted : x >= y
       IN Append(inserted_rows(inserted \ {k}),
                 [chunk_index |-> k, pinecone_vector_id |-> 0,
                  linked_team_ids |-> linked_team_ids(k)])

\* id of the row _save_single_chunk inserts for chunk k
inserted_id(inserted, k) ==
  Len(document_chunks) + Cardinality({x \in inserted : x <= k})

\* _save_chunk_data_to_supabase: a plain insert per chunk (inserted), whose id
\* comes back unless the request times out (saved). Then the loop of step 3.3
\* creates one update_pinecone_id_in_supabase task per embedded chunk with
\* an id, before the upsert is awaited
_save_chunk_data_to_supabase(inserted, saved) ==
  /\ index_pc = "save"
  /\ saved \subseteq inserted
  /\ document_chunks' = document_chunks \o inserted_rows(inserted)
  /\ supabase_chunk_id' =
       [k \in ChunkIndexes |-> IF k \in saved THEN inserted_id(inserted, k) ELSE 0]
  /\ all_chunks_processed_successfully' =
       (all_chunks_processed_successfully /\ saved = ChunkIndexes)
  /\ update_tasks' = update_tasks \cup {inserted_id(inserted, k) : k \in embedded \cap saved}
  /\ index_pc' = IF embedded \cap saved # {} THEN "upsert" ELSE "return"
  /\ UNCHANGED <<pinecone, match_info, query_results, search_pc, prediction_json,
                 prediction_result, structured_content, embedded, link_failed, runs,
                 payload_result, upsert_result>>
  /\ UNCHANGED <<queueVars, workerVars, tableVars, patchVars, dedupVars, raw_events, logVars,
                 llmVars, contextVars>>

\* update_pinecone_id_in_supabase, a task of its own: sets pinecone_vector_id
\* of the row; a failure is logged
update_pinecone_id_in_supabase(s_chunk_id, ok) ==
  /\ s_chunk_id \in update_tasks
  /\ update_tasks' = update_tasks \ {s_chunk_id}
  /\ document_chunks' =
       IF ok THEN [document_chunks EXCEPT ![s_chunk_id].pinecone_vector_id = s_chunk_id]
       ELSE document_chunks
  /\ UNCHANGED <<pinecone, match_info, query_results, search_pc, prediction_json,
                 prediction_result, structured_content, index_pc, embedded, link_failed,
                 supabase_chunk_id, all_chunks_processed_successfully, runs, payload_result,
                 upsert_result>>
  /\ UNCHANGED <<queueVars, workerVars, tableVars, patchVars, dedupVars, raw_events, logVars,
                 llmVars, contextVars>>

\* variant of the batch that sends every embedded chunk, with or without a row
pinecone_vectors_of_all_embedded == {pinecone_meta(k) : k \in embedded}

\* pinecone_vectors_to_upsert: the embedded chunks that have a supabase_chunk_id
pinecone_vectors_to_upsert ==
  {pinecone_meta(k) : k \in {x \in embedded : supabase_chunk_id[x] # 0}}

\* the batch upsert of step 3.3: one request for all vectors; when it raises
\* or times out the flag is cleared (a request that timed out may still have
\* been applied)
pinecone_index_upsert(raised, written) ==
  /\ index_pc = "upsert"
  /\ raised \/ written
  /\ pinecone' = IF written THEN pinecone \cup pinecone_vectors_to_upsert ELSE pinecone
  /\ upsert_result' = IF raised THEN "raised" ELSE "ok"
  /\ all_chunks_processed_successfully' = (all_chunks_processed_successfully /\ ~raised)
  /\ index_pc' = "return"
  /\ UNCHANGED <<match_info, query_results, search_pc, prediction_json, prediction_result,
                 document_chunks, structured_content, embedded, link_failed,
                 supabase_chunk_id, update_tasks, runs, payload_result>>
  /\ UNCHANGED <<queueVars, workerVars, tableVars, patchVars, dedupVars, raw_events, logVars,
                 llmVars, contextVars>>

\* the locals of process_event_payload go out of scope
locals_dropped ==
  /\ embedded' = {}
  /\ link_failed' = {}
  /\ supabase_chunk_id' = [k \in ChunkIndexes |-> 0]
  /\ all_chunks_processed_successfully' = TRUE
  /\ upsert_result' = "none"

\* process_event_payload returns the flag; the entry is acknowledged on True
\* and read again on False
process_event_payload_return ==
  /\ index_pc = "return"
  /\ payload_result' = IF all_chunks_processed_successfully THEN "True" ELSE "False"
  /\ index_pc' = "idle"
  /\ locals_dropped
  /\ UNCHANGED <<pinecone, match_info, query_results, search_pc, prediction_json,
                 prediction_result, document_chunks, structured_content, update_tasks, runs>>
  /\ UNCHANGED <<queueVars, workerVars, tableVars, patchVars, dedupVars, raw_events, logVars,
                 llmVars, contextVars>>

\* the consumer dies inside process_event_payload: its tasks die with it and
\* the entry stays pending
run_consumer_crash ==
  /\ index_pc \in {"save", "upsert", "return"}
  /\ index_pc' = "idle"
  /\ update_tasks' = {}
  /\ payload_result' = "crashed"
  /\ locals_dropped
  /\ UNCHANGED <<pinecone, match_info, query_results, search_pc, prediction_json,
                 prediction_result, document_chunks, structured_content, runs>>
  /\ UNCHANGED <<queueVars, workerVars, tableVars, patchVars, dedupVars, raw_events, logVars,
                 llmVars, contextVars>>

\* PreProcessor.process_event: the document row with its chunks in
\* structured_content is inserted first; when that fails nothing is sent to
\* the index; then one upsert per embedded chunk, each of which may fail
process_event(u, inserted, stored) ==
  /\ Len(processed_documents) < MaxStored
  /\ inserted \/ stored = {}
  /\ IF inserted
     THEN /\ processed_documents' = Append(processed_documents, u)
          /\ structured_content' = structured_content \cup
               {<<Len(processed_documents) + 1, k>> : k \in ChunkIndexes}
          /\ pinecone' = pinecone \cup
               {pinecone_metadata(Len(processed_documents) + 1, k) : k \in stored}
     ELSE UNCHANGED <<processed_documents, structured_content, pinecone>>
  /\ UNCHANGED <<doc_pc, doc_url, linkVars, rankVars>>
  /\ UNCHANGED <<match_info, query_results, search_pc, prediction_json, prediction_result,
                 document_chunks, index_pc, embedded, link_failed, supabase_chunk_id,
                 update_tasks, all_chunks_processed_successfully, runs, payload_result,
                 upsert_result>>
  /\ UNCHANGED <<queueVars, workerVars, tableVars, patchVars, dedupVars, raw_events, logVars,
                 llmVars>>

(* --------------------------- initial states ---------------------------- *)

QueueInit ==
  /\ queue_fixtures_priority = <<>>
  /\ queue_fixtures_normal = <<>>
  /\ fixtures_scanned = {}
  /\ priority_pushes = 0
  /\ pc = [w \in Workers |-> "idle"]
  /\ fixture_id = [w \in Workers |-> 0]
  /\ from_queue = [w \in Workers |-> "none"]
  /\ success = [w \in Workers |-> TRUE]

PatchInit ==
  /\ telegram_posts = <<>>
  /\ events_total = 0
  /\ qp_pc = [w \in Workers |-> "idle"]
  /\ event_data = [w \in Workers |-> NoEvent]
  /\ affected_predictions = [w \in Workers |-> <<>>]
  /\ impact_results = [w \in Workers |-> <<>>]
  /\ result_index = [w \in Workers |-> 0]
  /\ analysis_failed = [w \in Workers |-> {}]
  /\ store_error = [w \in Workers |-> FALSE]
  /\ status = [w \in Workers |-> "none"]
  /\ existing = [w \in Workers |-> FALSE]
  /\ store_fixture = [w \in Workers |-> 0]

DedupInit ==
  /\ processed_url = {}
  /\ dedup_errors = FALSE
  /\ submissions = 0
  /\ task_pc = [t \in Workers |-> "idle"]
  /\ link = [t \in Workers |-> 0]

LogInit ==
  /\ raw_events = <<>>
  /\ last_delivered_id = 0
  /\ pending = {}
  /\ acked = {}
  /\ idle = {}
  /\ consumer_pc = [c \in Workers |-> "poll"]
  /\ message_id = [c \in Workers |-> 0]
  /\ ack_needed = [c \in Workers |-> "none"]
  /\ analyzer_success = [c \in Workers |-> "none"]

LlmInit ==
  /\ llm_pc = "start"
  /\ attempt = 0
  /\ calls = 0
  /\ only_transient = TRUE
  /\ invalid_response = FALSE
  /\ outcome = "none"
  /\ backoff = 0
  /\ breaking_analysis = NoAnalysis
  /\ quick_patch_called = FALSE
  /\ raw_event_success = FALSE
  /\ raw_event_acked = FALSE

DocInit ==
  /\ processed_documents = <<>>
  /\ doc_pc = [c \in Workers |-> "idle"]
  /\ doc_url = [c \in Workers |-> 0]

LinkInit ==
  /\ response_data = <<>>
  /\ context_team_ids = {}
  /\ linker = "_link_player"
  /\ link_pc = "query"
  /\ link_raised = FALSE
  /\ link_result = {}

RankInit ==
  /\ chunks = <<>>
  /\ now = 90
  /\ rankings = <<>>

ContextInit ==
  /\ DocInit
  /\ LinkInit
  /\ RankInit

IndexInit ==
  /\ pinecone = {}
  /\ match_info = [home_team_id |-> 1, away_team_id |-> 2, event_date |-> <<400>>]
  /\ query_results = {}
  /\ search_pc = "query"
  /\ prediction_json = NoPrediction
  /\ prediction_result = "none"
  /\ document_chunks = <<>>
  /\ structured_content = {}
  /\ index_pc = "idle"
  /\ embedded = {}
  /\ link_failed = {}
  /\ supabase_chunk_id = [k \in ChunkIndexes |-> 0]
  /\ update_tasks = {}
  /\ all_chunks_processed_successfully = TRUE
  /\ runs = 0
  /\ payload_result = "none"
  /\ upsert_result = "none"

Init ==
  /\ QueueInit
  /\ PatchInit
  /\ DedupInit
  /\ IndexInit
  /\ ContextInit
  /\ LogInit
  /\ LlmInit
  /\ component = "classifier"
  /\ ai_predictions = <<>>
  /\ group = "worker-group"

Next ==
  \/ \E f \in Fixtures : add_fixture_ids_to_redis_queue(f)
  \/ \E f \in Fixtures : add_to_priority_queue(f)
  \/ \E w \in Workers : consume_fixtures_queue_priority(w)
  \/ \E w \in Workers : consume_fixtures_queue_llen(w)
  \/ \E w \in Workers : consume_fixtures_queue_normal(w)
  \/ \E w \in Workers : process_fixture(w)
  \/ \E w \in Workers : consume_fixtures_queue_requeue(w)

CrashNext ==
  \/ \E f \in Fixtures : add_fixture_ids_to_redis_queue(f)
  \/ \E f \in Fixtures : add_to_priority_queue(f)
  \/ \E w \in Workers : consume_fixtures_queue_priority(w)
  \/ \E w \in Workers : consume_fixtures_queue_llen(w)
  \/ \E w \in Workers : consume_fixtures_queue_normal(w)
  \/ \E w \in Workers : process_fixture(w)
  \/ \E w \in Workers : consume_fixtures_queue_requeue(w)
  \/ \E w \in Workers : consume_fixtures_queue_except(w)
  \/ \E w \in Workers : worker_loop_crash(w)

\* the published predictions at the start: at most one row per fixture, of
\* type "pre-match" and not stale
published(fs) ==
  LET ids == SelectSeq([f \in 1..NumFixtures |-> f], LAMBDA f : f \in fs)
  IN [i \in 1..Len(ids) |-> [fixture_id |-> ids[i], type |-> "pre-match", stale |-> FALSE]]

PatchSpecInit ==
  /\ QueueInit
  /\ PatchInit
  /\ DedupInit
  /\ IndexInit
  /\ ContextInit
  /\ LogInit
  /\ LlmInit
  /\ component = "classifier"
  /\ group = "worker-group"
  /\ \E fs \in SUBSET Fixtures : ai_predictions = published(fs)

PatchNext ==
  \/ \E w \in Workers, team \in Teams, rating \in ImpactRatings :
        process_breaking_news_impact(w, team, rating)
  \/ \E w \in Workers : trigger_mark_stale(w)
  \/ \E w \in Workers : trigger_insert(w)
  \/ \E w \in Workers : process_breaking_news_impact_return(w)
  \/ \E w \in Workers, f \in Fixtures : store_prediction_select(w, f)
  \/ \E w \in Workers : store_prediction_write(w)

DispatchNext ==
  \/ \E w \in Workers, affected_matches \in SUBSET Fixtures, team \in Teams,
         rating \in ImpactRatings :
        process_raw_event_breaking(w, affected_matches, team, rating)
  \/ \E w \in Workers : trigger_mark_stale(w)
  \/ \E w \in Workers : trigger_insert(w)
  \/ \E w \in Workers : process_breaking_news_impact_return(w)

DedupNext ==
  \/ \E t \in Workers, u \in 1..NumUrls : fetch_and_parse_rss_feed(t, u)
  \/ \E t \in Workers : is_url_processed(t)
  \/ \E t \in Workers : fetch_article_html(t)
  \/ \E t \in Workers : xadd_article(t)
  \/ \E t \in Workers : mark_url_as_processed(t)

LogSpecInit ==
  /\ QueueInit
  /\ PatchInit
  /\ DedupInit
  /\ IndexInit
  /\ ContextInit
  /\ LogInit
  /\ LlmInit
  /\ component = "classifier"
  /\ ai_predictions = <<>>
  /\ group \in ConsumerGroups

LogNext ==
  \/ \E kind \in EntryKinds : xadd_raw_event(kind)
  \/ \E c \in Workers : xreadgroup(c)
  \/ \E c \in Workers : xclaim(c)
  \/ \E c \in Workers : process_raw_event(c)
  \/ \E c \in Workers : analyzer_process_message(c)
  \/ \E c \in Workers : preprocessor_process(c)
  \/ \E c \in Workers : consumer_ack(c)
  \/ \E c \in Workers : consumer_crash(c)
  \/ \E id \in 1..MaxEvents : idle_threshold_passes(id)

\* every consumer loop keeps running and time keeps passing; fetchers and
\* crashes need not happen
LogFairness ==
  /\ \A c \in Workers : WF_vars(xreadgroup(c))
  /\ \A c \in Workers : WF_vars(xclaim(c))
  /\ \A c \in Workers : WF_vars(process_raw_event(c))
  /\ \A c \in Workers : WF_vars(analyzer_process_message(c))
  /\ \A c \in Workers : WF_vars(preprocessor_process(c))
  /\ \A c \in Workers : WF_vars(consumer_ack(c))
  /\ \A id \in 1..MaxEvents : WF_vars(idle_threshold_passes(id))

Spec == Init /\ [][Next]_vars

CrashSpec == Init /\ [][CrashNext]_vars

PatchSpec == PatchSpecInit /\ [][PatchNext]_vars

DispatchSpec == PatchSpecInit /\ [][DispatchNext]_vars

DedupSpec == Init /\ [][DedupNext]_vars

LogSpec == LogSpecInit /\ [][LogNext]_vars

LogFairSpec == LogSpecInit /\ [][LogNext]_vars /\ LogFairness

\* a worker has read one tweet from stream:raw_events
ClassifierInit ==
  /\ QueueInit
  /\ PatchInit
  /\ DedupInit
  /\ IndexInit
  /\ ContextInit
  /\ LogInit
  /\ LlmInit
  /\ ai_predictions = <<>>
  /\ group = "worker-group"
  /\ component = "classifier"

ClassifierNext ==
  \/ \E has_text \in BOOLEAN : analyze_tweet(has_text)
  \/ \E raised \in BOOLEAN, content \in Contents : _analyze_with_llm(raised, content)
  \/ process_raw_event_twitter
  \/ consume_raw_events_stream_xack

ClassifierSpec == ClassifierInit /\ [][ClassifierNext]_vars

\* one component is about to call the reasoning service
RetryInit ==
  /\ QueueInit
  /\ PatchInit
  /\ DedupInit
  /\ IndexInit
  /\ ContextInit
  /\ LogInit
  /\ ai_predictions = <<>>
  /\ group = "worker-group"
  /\ component \in Components
  /\ llm_pc = "call"
  /\ attempt = 0
  /\ calls = 0
  /\ only_transient = TRUE
  /\ invalid_response = FALSE
  /\ outcome = "none"
  /\ backoff = 0
  /\ breaking_analysis = NoAnalysis
  /\ quick_patch_called = FALSE
  /\ raw_event_success = FALSE
  /\ raw_event_acked = FALSE

RetryNext ==
  \/ \E raised \in BOOLEAN, content \in Contents : _analyze_with_llm(raised, content)
  \/ \E raised \in BOOLEAN : _analyze_prediction_impact_llm(raised)
  \/ \E call \in CallOutcomes : _call_openai_llm(call)
  \/ \E call \in CallOutcomes : _generate_embedding(call)
  \/ \E call \in CallOutcomes : generate_prediction_llm(call)

RetrySpec == RetryInit /\ [][RetryNext]_vars

\* the analyzer consumers and the pre-processor write processed_documents
DocSpecInit ==
  /\ QueueInit
  /\ PatchInit
  /\ DedupInit
  /\ IndexInit
  /\ LogInit
  /\ LlmInit
  /\ ai_predictions = <<>>
  /\ group = "worker-group"
  /\ component = "classifier"
  /\ DocInit
  /\ LinkInit
  /\ RankInit

DocNext ==
  \/ \E c \in Workers, u \in 1..NumUrls : process_event_payload(c, u)
  \/ \E c \in Workers, raised \in BOOLEAN : _get_or_create_processed_document_select(c, raised)
  \/ \E c \in Workers, ok \in BOOLEAN : _get_or_create_processed_document_insert(c, ok)
  \/ \E u \in 1..NumUrls : store_to_supabase_processed_document(u)

DocSpec == DocSpecInit /\ [][DocNext]_vars

\* one lookup of a name, on any answer of the registry and any team context
LinkSpecInit ==
  /\ QueueInit
  /\ PatchInit
  /\ DedupInit
  /\ IndexInit
  /\ LogInit
  /\ LlmInit
  /\ ai_predictions = <<>>
  /\ group = "worker-group"
  /\ component = "classifier"
  /\ DocInit
  /\ RankInit
  /\ response_data \in Responses
  /\ context_team_ids \in SUBSET (1..NumLinkTeams)
  /\ linker \in Linkers
  /\ link_pc = "query"
  /\ link_raised = FALSE
  /\ link_result = {}

LinkNext == \E raised \in BOOLEAN : link_lookup(raised)

LinkSpec == LinkSpecInit /\ [][LinkNext]_vars

\* the retriever ranks the matches of one index query, which do not change
RankSpecInit ==
  /\ QueueInit
  /\ PatchInit
  /\ DedupInit
  /\ IndexInit
  /\ LogInit
  /\ LlmInit
  /\ ai_predictions = <<>>
  /\ group = "worker-group"
  /\ component = "classifier"
  /\ DocInit
  /\ LinkInit
  /\ chunks \in UNION {[1..n -> ChunkMetadata] : n \in 0..MaxChunks}
  /\ now \in Clock
  /\ rankings = <<>>

RankNext ==
  \/ _rank_and_filter_chunks
  \/ \E t \in Clock : clock_advances(t)

RankSpec == RankSpecInit /\ [][RankNext]_vars

\* the retriever queries an index of any content for a fixture
SearchSpecInit ==
  /\ QueueInit
  /\ PatchInit
  /\ DedupInit
  /\ LogInit
  /\ LlmInit
  /\ ContextInit
  /\ ai_predictions = <<>>
  /\ group = "worker-group"
  /\ component = "classifier"
  /\ \E n \in 0..MaxVectors : \E m \in [1..n -> VectorMetadata] :
       pinecone = {[id |-> [doc |-> 0, chunk |-> i],
                    linked_team_ids |-> m[i].linked_team_ids,
                    document_timestamp |-> m[i].document_timestamp] : i \in 1..n}
  /\ match_info \in MatchInfos
  /\ query_results = {}
  /\ search_pc = "query"
  /\ prediction_json = NoPrediction
  /\ prediction_result = "none"
  /\ document_chunks = <<>>
  /\ structured_content = {}
  /\ index_pc = "idle"
  /\ embedded = {}
  /\ link_failed = {}
  /\ supabase_chunk_id = [k \in ChunkIndexes |-> 0]
  /\ update_tasks = {}
  /\ all_chunks_processed_successfully = TRUE
  /\ runs = 0
  /\ payload_result = "none"
  /\ upsert_result = "none"

SearchNext == \E raised \in BOOLEAN : _search_relevant_content(raised)

SearchSpec == SearchSpecInit /\ [][SearchNext]_vars

\* the reasoner has parsed one response of the reasoning service
ReasonerSpecInit ==
  /\ QueueInit
  /\ PatchInit
  /\ DedupInit
  /\ LogInit
  /\ LlmInit
  /\ ContextInit
  /\ ai_predictions = <<>>
  /\ group = "worker-group"
  /\ component = "classifier"
  /\ pinecone = {}
  /\ match_info = [home_team_id |-> 1, away_team_id |-> 2, event_date |-> <<400>>]
  /\ query_results = {}
  /\ search_pc = "query"
  /\ prediction_json \in PredictionResponses
  /\ prediction_result = "none"
  /\ document_chunks = <<>>
  /\ structured_content = {}
  /\ index_pc = "idle"
  /\ embedded = {}
  /\ link_failed = {}
  /\ supabase_chunk_id = [k \in ChunkIndexes |-> 0]
  /\ update_tasks = {}
  /\ all_chunks_processed_successfully = TRUE
  /\ runs = 0
  /\ payload_result = "none"
  /\ upsert_result = "none"

ReasonerNext == generate_prediction_validate

ReasonerSpec == ReasonerSpecInit /\ [][ReasonerNext]_vars

(* IndexSpec: the analyzer processes one document, up to MaxRuns times, the
   pre-processor stores documents of its own, and the retriever searches the
   index for the fixture of IndexInit. *)
IndexSpecInit ==
  /\ QueueInit
  /\ PatchInit
  /\ DedupInit
  /\ IndexInit
  /\ ContextInit
  /\ LogInit
  /\ LlmInit
  /\ component = "classifier"
  /\ ai_predictions = <<>>
  /\ group = "worker-group"

IndexNext ==
  \/ \E failed_lookups \in SUBSET ChunkIndexes, with_embedding \in SUBSET ChunkIndexes :
        process_event_payload_chunks(failed_lookups, with_embedding)
  \/ \E inserted \in SUBSET ChunkIndexes, saved \in SUBSET ChunkIndexes :
        _save_chunk_data_to_supabase(inserted, saved)
  \/ \E s_chunk_id \in 1..(NumChunks * MaxRuns), ok \in BOOLEAN :
        update_pinecone_id_in_supabase(s_chunk_id, ok)
  \/ \E raised \in BOOLEAN, written \in BOOLEAN : pinecone_index_upsert(raised, written)
  \/ process_event_payload_return
  \/ run_consumer_crash
  \/ \E inserted \in BOOLEAN, stored \in SUBSET ChunkIndexes :
        process_event(document_url, inserted, stored)
  \/ \E raised \in BOOLEAN : _search_relevant_content(raised)

IndexSpec == IndexSpecInit /\ [][IndexNext]_vars

(* ------------------- properties of the fixture queues ------------------- *)

\* C1: at every step in which a worker takes a fixture for processing, under
\* any interleaving with the producers, if the priority queue is non-empty
\* the fixture taken is the head of the priority queue and never one of the
\* normal queue.
C1_PriorityPrecedence ==
  [][\A w \in Workers :
       (pc[w] # "process_fixture" /\ pc'[w] = "process_fixture"
          /\ queue_fixtures_priority # <<>>)
         => /\ from_queue'[w] = "priority"
            /\ fixture_id'[w] = Head(queue_fixtures_priority)
            /\ queue_fixtures_normal' = queue_fixtures_normal
    ]_vars

\* C1 as consume_fixtures_queue implements it: at every poll of the priority
\* queue, if that queue is non-empty the worker takes its head and leaves the
\* normal queue alone; a worker turns to the normal queue only after a poll
\* that found the priority queue empty, and takes a normal fixture only from
\* the pop that follows that poll.
C1_PriorityFirst ==
  [][\A w \in Workers :
       /\ (pc[w] = "idle" /\ pc'[w] # "idle" /\ queue_fixtures_priority # <<>>)
            => /\ pc'[w] = "process_fixture"
               /\ from_queue'[w] = "priority"
               /\ fixture_id'[w] = Head(queue_fixtures_priority)
               /\ queue_fixtures_priority' = Tail(queue_fixtures_priority)
               /\ queue_fixtures_normal' = queue_fixtures_normal
       /\ (pc[w] # "llen" /\ pc'[w] = "llen") => queue_fixtures_priority = <<>>
       /\ (from_queue[w] # "normal" /\ from_queue'[w] = "normal") => pc[w] = "blpop"
    ]_vars

\* a worker holds a fixture of the priority queue while the normal queue waits
C1_Witness ==
  \E w \in Workers :
    /\ pc[w] = "process_fixture"
    /\ from_queue[w] = "priority"
    /\ queue_fixtures_normal # <<>>

C2_InvalidationEffects ==
  \A w \in Workers :
    (/\ qp_pc[w] = "returned"
     /\ ~store_error[w]
     /\ analysis_failed[w] = {}
     /\ event_data[w].rule) =>
      \A f \in FixturesOfTeam(event_data[w].team) :
        /\ \A i \in PredictionIds :
             (/\ i <= event_data[w].timestamp
              /\ ai_predictions[i].fixture_id = f
              /\ ai_predictions[i].type # "breaking_update") => ai_predictions[i].stale
        /\ (\E i \in Range(affected_predictions[w]) : ai_predictions[i].fixture_id = f) =>
             /\ f \in Range(queue_fixtures_priority)
             /\ \E j \in PredictionIds :
                  /\ j > event_data[w].timestamp
                  /\ ai_predictions[j].fixture_id = f
                  /\ ai_predictions[j].type = "breaking_update"
             /\ Cardinality({k \in 1..Len(telegram_posts) :
                   telegram_posts[k] = [fixture_id |-> f, event |-> event_data[w].id]}) = 1

\* C3: no read path gives a stale row as the current prediction of its
\* fixture unless the fixture has a newer row that is not stale: get_prediction
\* answers "ready" with it, get_latest_predictions names it as prediction_id,
\* the freshness check of generate_prediction accepts it.
C3_StaleNeverCurrent ==
  \A f \in Fixtures :
    LET newer(i) == \E j \in PredictionIds :
                      /\ j > i
                      /\ ai_predictions[j].fixture_id = f
                      /\ ~ai_predictions[j].stale
    IN /\ (get_prediction(f).status = "ready"
             /\ ai_predictions[get_prediction(f).prediction].stale)
            => newer(get_prediction(f).prediction)
       /\ (get_latest_predictions(f).has_prediction
             /\ ai_predictions[get_latest_predictions(f).prediction_id].stale)
            => newer(get_latest_predictions(f).prediction_id)
       /\ generate_prediction(f) # 0 => ~ai_predictions[generate_prediction(f)].stale

events_of(u) == {i \in EntryIds : raw_events[i].url = u}

\* the scraper tasks that took a link for unseen and go on with it
proceeding(u) == {t \in Workers : task_pc[t] \in {"fetch", "xadd", "mark"} /\ link[t] = u}

\* C5: while every Redis call of the guard answers, a link that is submitted
\* any number of times within the TTL has at most one event on the ingestion
\* log, and exactly one once the link is marked as processed.
C5_DedupIdempotence ==
  ~dedup_errors =>
    \A u \in 1..NumUrls :
      /\ Cardinality(events_of(u)) <= 1
      /\ (u \in processed_url => Cardinality(events_of(u)) = 1)

\* C6: while every Redis call of the guard answers, of the scraper tasks that
\* handle the same unseen link at the same time at most one sees it as not
\* seen and goes on; every other one sees it as seen and drops the item.
C6_CheckAndMarkAtomic ==
  ~dedup_errors => \A u \in 1..NumUrls : Cardinality(proceeding(u)) <= 1

(* ------------- the consumer groups: C7, C9, C10 ------------------------ *)

\* C7: an entry of the log is acknowledged only by a consumer whose
\* processing step reported success for it, and the step of a consumer whose
\* processing failed leaves the entry unacknowledged and pending.
C7_AckOnlyAfterSuccess ==
  [][/\ (acked' # acked) =>
          \E c \in Workers :
            /\ consumer_pc[c] = "ack"
            /\ ack_needed[c] = "success"
            /\ acked' = acked \cup {message_id[c]}
     /\ \A c \in Workers :
          (consumer_pc[c] = "ack" /\ ack_needed[c] = "failed" /\ consumer_pc'[c] = "poll")
            => (acked' = acked /\ pending' = pending)
    ]_vars

\* C7 as the consumers implement it: an entry is acknowledged only by a
\* consumer whose processing step reported success for it or, in the content
\* analyzer, by the consumer that skipped it because it carries no article
\* text; the step of a consumer whose processing failed leaves the
\* acknowledged and pending entries as they are.
C7_AckAfterSuccessOrSkip ==
  [][/\ (acked' # acked) =>
          \E c \in Workers :
            /\ consumer_pc[c] = "ack"
            /\ \/ ack_needed[c] = "success"
               \/ /\ ack_needed[c] = "skipped"
                  /\ group = "group:llm_content_analyzer"
                  /\ raw_events[message_id[c]].kind # "article"
            /\ acked' = acked \cup {message_id[c]}
     /\ \A c \in Workers :
          (consumer_pc[c] = "ack" /\ ack_needed[c] = "failed" /\ consumer_pc'[c] = "poll")
            => (acked' = acked /\ pending' = pending)
    ]_vars

\* one entry has been acknowledged while a consumer whose processing failed
\* is about to go back to polling with its entry pending
C7_Witness ==
  /\ acked # {}
  /\ \E c \in Workers :
       /\ consumer_pc[c] = "ack"
       /\ ack_needed[c] = "failed"
       /\ message_id[c] \in pending \ acked

\* C9: every entry that was delivered and has stayed unacknowledged longer
\* than the idle threshold is eventually taken over by a consumer of its
\* group (or acknowledged).
C9_IdleEventuallyReclaimed ==
  \A id \in 1..MaxEvents : (id \in idle) ~> (id \notin idle)

\* C10: when process_event_payload answered False or raised for the entry a
\* worker has in hand, process_raw_event does not answer True, so that the
\* entry is not acknowledged.
C10_IndexerFailureRetryable ==
  \A c \in Workers :
    (group = "worker-group" /\ consumer_pc[c] = "ack" /\ analyzer_success[c] = "failed")
      => ack_needed[c] # "success"

(* ------------- the classifier and the retry loops: C11 .. C15 ---------- *)

\* C11: when the classifier has used up its attempts on transient failures
\* of the reasoning service for an entry, process_raw_event does not answer
\* success for the entry and the entry is not acknowledged.
C11_ExhaustionLeavesPending ==
  (outcome = "exhausted" /\ llm_pc \in {"ack", "done"})
    => (~raw_event_success /\ ~raw_event_acked)

\* C12: when the classification response of the reasoning service fails the
\* validation, the classifier calls the service no further time and answers
\* importance 1 with urgency NORMAL.
C12_InvalidResponseDefault ==
  invalid_response =>
    /\ llm_pc # "call"
    /\ breaking_analysis.importance_score = 1
    /\ breaking_analysis.urgency_level = "NORMAL"

\* the number of attempts every component is configured with
max_attempts(c) ==
  IF c = "classifier" THEN MAX_RETRIES
  ELSE IF c = "impact" THEN QUICK_PATCH_MAX_RETRIES
  ELSE OPENAI_MAX_RETRIES

\* C13: a component whose every call of the reasoning service fails
\* transiently makes exactly 3 calls and then gives up: it never makes a
\* fourth call and never stops before the third.
C13_RetryBound ==
  /\ max_attempts(component) = 3
  /\ calls <= 3
  /\ only_transient =>
       /\ (calls < 3 => (llm_pc = "call" /\ outcome = "none"))
       /\ (calls = 3 => (llm_pc # "call" /\ outcome = "exhausted"))
  /\ outcome = "exhausted" => calls = 3

\* the segmentation has given up after three transient failures
C13_Witness ==
  /\ component = "segmentation"
  /\ outcome = "exhausted"
  /\ only_transient
  /\ calls = 3
  /\ backoff = 4

C15_RequiresUpdateIsRule ==
  \A w \in Workers :
    (event_data[w].id # 0 /\ analysis_failed[w] = {})
      => (event_data[w].requires_update <=> event_data[w].rule)

(* ------------- the Quick Patch Generator: C16 -------------------------- *)

C17_OneRowPerUrl ==
  \A u \in 1..NumUrls : Cardinality(rows_of(u)) <= 1

(* -------------------- properties of the entity linker ------------------- *)

\* C18: in a player or coach lookup whose query answered, when a matching
\* row has its current team in team_context the lookup returns a row whose
\* team is in team_context; when no matching row is in team_context it
\* returns the first match; when no row matches it returns nothing.
C18_Disambiguation ==
  (link_pc = "returned" /\ ~link_raised) =>
    LET in_context == {i \in 1..Len(response_data) :
                         is_in_context_team(response_data[i], context_team_ids)}
    IN /\ current_in_context(response_data, context_team_ids) # {} =>
            link_result # {} /\ link_result \subseteq in_context
       /\ (response_data # <<>> /\ in_context = {}) => link_result = {1}
       /\ response_data = <<>> => link_result = {}

(* ------------------ properties of the context retriever ----------------- *)

\* C19: for a fixed set of chunks with fixed metadata, any two calls of the
\* ranking, at any two times, return the identical ordering and the
\* identical score values.
C19_RankingDeterminism ==
  \A i, j \in 1..Len(rankings) : rankings[i] = rankings[j]

\* C20: every call of the ranking gives each chunk the score 20*importance +
\* category_bonus - age_penalty, where the category bonus is strictly ordered
\* injury > transfer > tactical/team-news > preview > other, and the age
\* penalty is never negative, equals the age in days up to the cap and the
\* cap beyond.
C20_RankScore ==
  [][rankings' # rankings =>
       LET ranked == rankings'[Len(rankings')]
           level(t) == IF "injury" \in t THEN 4
                       ELSE IF "transfer" \in t THEN 3
                       ELSE IF "team news" \in t \/ "strategy" \in t THEN 2
                       ELSE IF "pre-match" \in t THEN 1
                       ELSE 0
           cap == 10
       IN /\ \A k \in 1..Len(ranked) :
               LET m == chunks[ranked[k].chunk]
                   penalty == age_penalty(m.document_timestamp, now)
                   days == age_days(m.document_timestamp, now)
               IN /\ ranked[k].score =
                       20 * m.importance_score + type_bonus(m.chunk_type) - penalty
                  /\ penalty >= 0
                  /\ penalty <= cap
                  /\ (m.document_timestamp.iso /\ days <= cap) => penalty = days
          /\ \A i, j \in 1..Len(chunks) :
               level(chunks[i].chunk_type) > level(chunks[j].chunk_type) =>
                 type_bonus(chunks[i].chunk_type) > type_bonus(chunks[j].chunk_type)
    ]_vars

(* ---------------- properties of the query of the retriever -------------- *)

\* C21: for every fixture with a kickoff, the query of the retriever selects
\* exactly the chunks whose linked teams include the home or the away team
\* and whose timestamp lies in the closed window from days_back before the
\* kickoff to the kickoff.
C21_SearchWindow ==
  (search_pc = "returned" /\ match_info.event_date # <<>>) =>
    query_results =
      {v.id : v \in {x \in pinecone :
         /\ x.linked_team_ids \cap {match_info.home_team_id, match_info.away_team_id} # {}
         /\ x.document_timestamp # <<>>
         /\ x.document_timestamp[1] >= match_info.event_date[1] - 24 * DEFAULT_DAYS_BACK
         /\ x.document_timestamp[1] <= match_info.event_date[1]}}

(* ---------------- properties of the prediction reasoner ----------------- *)

\* C22: the reasoner returns a response as a prediction only if every
\* required field is present, the bet list is well-formed and every
\* probability is in range.
C22_ValidatedBeforeAccepted ==
  prediction_result = "returned" =>
    /\ prediction_json.missing = "none"
    /\ prediction_json.value_bets_is_list
    /\ \A i \in 1..Len(prediction_json.value_bets) :
         /\ prediction_json.value_bets[i].is_dict
         /\ prediction_json.value_bets[i].missing = "none"
         /\ prediction_json.value_bets[i].recommended_probability \in 0..100
    /\ prediction_json.confidence_is_number
    /\ prediction_json.confidence_score \in 0..100

(* ------------- regeneration of a dequeued fixture: C23 ----------------- *)

\* the rows a step adds to ai_predictions that are a fresh pre-match
\* prediction of fixture f
fresh_pre_match_rows(f) ==
  {i \in (Len(ai_predictions) + 1)..Len(ai_predictions') :
     /\ ai_predictions'[i].fixture_id = f
     /\ ai_predictions'[i].type = "pre-match"
     /\ ~ai_predictions'[i].stale}

\* C23: whenever the processing of a dequeued fixture succeeds, the context
\* retriever and the prediction reasoner have run for it and a new non-stale
\* pre-match prediction row of the fixture has been stored.
C23_Regeneration ==
  [][\A w \in Workers :
       (pc[w] = "process_fixture" /\ pc'[w] = "requeue" /\ success'[w])
         => fresh_pre_match_rows(fixture_id[w]) # {}]_vars

(* ------------- the processed_url guard: C24 ---------------------------- *)

\* C24: the guard reports a link as already seen only when an article of
\* that link was appended to stream:raw_events before: a link is marked
\* only behind a successful XADD, and neither a failed XADD nor an error of
\* Redis in the guard leaves a mark.
C24_NoFalsePositive ==
  \A u \in processed_url : events_of(u) # {}

\* a link is looked up while it is marked, after some call of the guard
\* failed with an error of Redis
C24_Witness ==
  \E t \in Workers :
    /\ task_pc[t] = "check"
    /\ link[t] \in processed_url
    /\ dedup_errors

(* ------------- the fixtures a breaking event affects: C25 -------------- *)

\* C25: when the candidate query of process_breaking_news_impact answers,
\* every non-stale prediction of every fixture of the lookahead window in
\* which the resolved team plays, at home or away, is among the candidates.
C25_HomeOrAway ==
  [][\A w \in Workers :
       (/\ qp_pc[w] = "idle"
        /\ qp_pc'[w] # "idle"
        /\ ~store_error'[w]
        /\ event_data'[w].team # 0)
         => \A i \in PredictionIds :
              (/\ ai_predictions[i].fixture_id \in FixturesOfTeam(event_data'[w].team)
               /\ ~ai_predictions[i].stale)
                 => \E j \in 1..Len(affected_predictions'[w]) :
                      affected_predictions'[w][j] = i]_vars

(* ------------- the dual write of a document: C26 .. C30 ---------------- *)

\* the rows of document_chunks
ChunkRowIds == 1..Len(document_chunks)

\* the vector entry stored under the id of a chunk row, if any
vectors_of_row(i) == {v \in pinecone : v.id = vector_id(0, i)}

\* C26: the back-reference of a chunk row is written only after the vector
\* upsert has completed successfully: no row carries a pinecone_vector_id
\* whose vector entry was never written.
C26_BackReferenceAfterUpsert ==
  \A i \in ChunkRowIds :
    document_chunks[i].pinecone_vector_id # 0
      => vectors_of_row(document_chunks[i].pinecone_vector_id) # {}

\* C27: in every reachable state, also after a crash or a failure between
\* the steps of the dual write, every entry of the vector index is keyed by
\* an existing relational chunk: a row of document_chunks, or a chunk held
\* in structured_content of a processed_documents row.
C27_NoOrphanVector ==
  \A v \in pinecone :
    IF v.id.doc = 0
    THEN v.id.chunk \in ChunkRowIds
    ELSE <<v.id.doc, v.id.chunk>> \in structured_content

\* after a crash of the consumer the index holds the vector of one chunk row
\* while another chunk row has none
C27_Witness ==
  /\ payload_result = "crashed"
  /\ \E i \in ChunkRowIds : vectors_of_row(i) # {}
  /\ \E i \in ChunkRowIds : vectors_of_row(i) = {}

\* the chunks of the run one of whose own steps (entity lookup, embedding,
\* insert of the row) failed
failed_chunks ==
  link_failed \cup (ChunkIndexes \ embedded) \cup {k \in ChunkIndexes : supabase_chunk_id[k] = 0}

\* C28: when the entity lookup, the embedding or the vector upsert fails for
\* a chunk, process_event_payload returns False, and every sibling chunk
\* whose own steps succeeded has its row and its vector entry.
C28_FragmentIsolation ==
  [][(index_pc = "return" /\ payload_result' \in {"True", "False"})
       => /\ (failed_chunks # {} \/ upsert_result = "raised") => payload_result' = "False"
          /\ \A k \in ChunkIndexes \ failed_chunks :
               /\ supabase_chunk_id[k] \in ChunkRowIds
               /\ upsert_result = "ok" => vectors_of_row(supabase_chunk_id[k]) # {}]_vars

\* C29: processing the document again after a partial failure inserts only
\* the chunks that were missing: the table never holds two rows for the same
\* chunk_index of the document.
C29_RetryIdempotence ==
  \A k \in ChunkIndexes :
    Cardinality({i \in ChunkRowIds : document_chunks[i].chunk_index = k}) <= 1

\* the team ids the relational store holds for the chunk of a vector entry
relational_team_ids(v) ==
  IF v.id.doc = 0 THEN document_chunks[v.id.chunk].linked_team_ids
  ELSE {linked_team_names(v.id.chunk)}

\* whether the document is dated inside the retrieval window of the fixture
in_retrieval_window ==
  /\ match_info.event_date # <<>>
  /\ article_timestamp >= match_info.event_date[1] - 24 * DEFAULT_DAYS_BACK
  /\ article_timestamp <= match_info.event_date[1]

\* C30: the metadata of every vector entry carries the linked team ids and
\* the document timestamp of its relational chunk in the fields the
\* retriever filters on, so a search for a fixture returns every indexed
\* chunk of its two teams that is dated inside the retrieval window.
C30_MetadataAgrees ==
  [][/\ \A v \in pinecone' :
          /\ v.linked_team_ids = relational_team_ids(v)'
          /\ v.document_timestamp = <<article_timestamp>>
     /\ (search_pc = "query" /\ search_pc' = "returned")
          => \A v \in pinecone :
               (/\ relational_team_ids(v) \cap
                     {match_info.home_team_id, match_info.away_team_id} # {}
                /\ in_retrieval_window)
                 => v.id \in query_results']_vars

(* ------------- responses that violate the schema: C31 ------------------ *)

\* C31: a response of the reasoning service that is no JSON or has not the
\* required structure is not retried by the reasoner or the segmenter: the
\* call fails at once, without a further request and without a result that
\* could be persisted.
C31_SchemaViolationNotRetried ==
  (component \in {"prediction", "segmentation"} /\ invalid_response)
    => (llm_pc = "returned" /\ outcome = "aborted")

(* ------------- order of the fixture queues: C32 ------------------------ *)

\* a step that changes the list q into r appends one element at its tail
enqueued_at_tail(q, r) == Len(r) = Len(q) + 1 /\ r = Append(q, r[Len(r)])

\* a step that changes the list q into r removes its head
dequeued_at_head(q, r) == q # <<>> /\ r = Tail(q)

\* C32: both fixture queues are FIFO: whoever enqueues (the fixture scanner,
\* the Impact Analyzer, a failure re-append) appends at the tail and the
\* worker takes from the head, so fixtures leave a queue in the order in
\* which they entered it.
C32_Fifo ==
  [][/\ queue_fixtures_normal' # queue_fixtures_normal
          => \/ enqueued_at_tail(queue_fixtures_normal, queue_fixtures_normal')
             \/ dequeued_at_head(queue_fixtures_normal, queue_fixtures_normal')
     /\ queue_fixtures_priority' # queue_fixtures_priority
          => \/ enqueued_at_tail(queue_fixtures_priority, queue_fixtures_priority')
             \/ dequeued_at_head(queue_fixtures_priority, queue_fixtures_priority')]_vars

(* ------------- work that can never succeed: C33 ------------------------ *)

\* C33: a unit of work that fails permanently is acknowledged without
\* retry: the consumer that has processed an entry whose payload is
\* malformed acknowledges it, in every consumer group, so that the entry
\* does not stay pending to be delivered again.
C33_PermanentFailureAcknowledged ==
  \A c \in Workers :
    (consumer_pc[c] = "ack" /\ raw_events[message_id[c]].kind = "malformed")
      => ack_needed[c] \in {"success", "skipped"}

(* ------------- starvation of the normal queue: C34 --------------------- *)

\* a fixture waits in the normal queue while every worker is either about
\* to poll the priority queue or busy with a fixture it took from the
\* priority queue, whose processing fails when it has ended, and a priority
\* fixture is in the queue or in the hands of a worker
priority_keeps_workers_busy ==
  /\ queue_fixtures_normal # <<>>
  /\ \A w \in Workers :
       \/ pc[w] = "idle"
       \/ /\ pc[w] \in {"process_fixture", "requeue"}
          /\ from_queue[w] = "priority"
          /\ pc[w] = "requeue" => ~success[w]
  /\ \/ queue_fixtures_priority # <<>>
     \/ \E w \in Workers : pc[w] \in {"process_fixture", "requeue"}

\* a step of the cycle of a priority fixture that keeps failing: a worker
\* finds it at its poll of the priority queue, its processing fails, the
\* worker appends it to the priority queue again
failing_priority_step ==
  \E w \in Workers :
    \/ queue_fixtures_priority # <<>> /\ consume_fixtures_queue_priority(w)
    \/ process_fixture(w) /\ ~success'[w]
    \/ consume_fixtures_queue_requeue(w)

\* C34: strict precedence can starve the normal queue: from a state where a
\* fixture waits in the normal queue and a priority fixture keeps failing, a
\* step of the cycle of the failing fixture is always possible and leads to
\* such a state again with the normal queue untouched, so the execution
\* that takes these steps for ever never processes the waiting fixture.
C34_Starvation ==
  /\ [](priority_keeps_workers_busy => ENABLED failing_priority_step)
  /\ [][(priority_keeps_workers_busy /\ failing_priority_step)
          => /\ priority_keeps_workers_busy'
             /\ queue_fixtures_normal' = queue_fixtures_normal]_vars

\* a fixture waits in the normal queue while a worker is about to append the
\* priority fixture whose processing has failed to the priority queue again
C34_Witness ==
  /\ priority_keeps_workers_busy
  /\ \E w \in Workers : pc[w] = "requeue" /\ from_queue[w] = "priority"

(* ------------- one consumer per entry: C35 ----------------------------- *)

\* C35: within one consumer group an entry of the log is in the hands of at
\* most one consumer at any time: no two consumers that are working hold
\* the same entry, whether they got it by delivery or by reclaiming it.
C35_OneLiveConsumerPerEntry ==
  \A c1, c2 \in Workers :
    (c1 # c2 /\ message_id[c1] # 0) => message_id[c1] # message_id[c2]

(* ------------- conservation of the fixtures: C36 ----------------------- *)

\* how often the fixture f occurs in the list q
occurrences(q, f) == Cardinality({i \in 1..Len(q) : q[i] = f})

\* the copies of the fixture f that are work to do, in the two queues
\* (priority, normal) and in the hands of the workers (p, held)
work_items(f, priority, normal, p, held) ==
  occurrences(priority, f) + occurrences(normal, f)
    + Cardinality({w \in Workers : p[w] \in {"process_fixture", "requeue"} /\ held[w] = f})

\* C36: no fixture is lost between dequeue and the end of processing: a
\* step that leaves fewer copies of a fixture in the queues and in the hands
\* of the workers is the end of a cycle of a worker that has processed the
\* fixture with success, also when the queue service fails or a worker dies.
C36_Conservation ==
  [][\A f \in Fixtures :
       work_items(f, queue_fixtures_priority', queue_fixtures_normal', pc', fixture_id')
         < work_items(f, queue_fixtures_priority, queue_fixtures_normal, pc, fixture_id)
       => \E w \in Workers :
            /\ pc[w] = "requeue"
            /\ success[w]
            /\ fixture_id[w] = f
            /\ pc'[w] = "idle"]_vars

(* ------------- stale predictions and the priority queue: C37 ----------- *)

\* C37: the fixture of every prediction that is stale has been appended to
\* the priority queue, also when a later step of the update that marked it
\* stale failed.  (No worker takes fixtures from the queue in PatchSpec, so
\* what was appended is still in it.)
C37_StaleImpliesEnqueued ==
  \A i \in 1..Len(ai_predictions) :
    ai_predictions[i].stale
      => ai_predictions[i].fixture_id \in Range(queue_fixtures_priority)

(* ------------- what a breaking event invalidates: C38 ------------------ *)

\* C38: only pre-match predictions are invalidated: a breaking-patch row is
\* never among the candidate predictions of a breaking event and is never
\* marked stale, so that it causes no further patch row, priority enqueue
\* or notification.
C38_PatchRowsNeverInvalidated ==
  /\ \A w \in Workers : \A i \in Range(affected_predictions[w]) :
       ai_predictions[i].type # "breaking_update"
  /\ \A i \in 1..Len(ai_predictions) :
       ai_predictions[i].type = "breaking_update" => ~ai_predictions[i].stale

(* ------------- priority enqueues of one breaking event: C39 ------------ *)

\* C39: for one breaking event every affected fixture is appended to the
\* priority queue at most once, the dispatcher's enqueue of the affected
\* matches and the Quick Patch's enqueue of the invalidated fixtures taken
\* together.  (While one event has come in, whatever is in the priority
\* queue was appended for it: nothing takes fixtures from the queue in
\* DispatchSpec.)
C39_OneEnqueuePerEvent ==
  events_total = 1 =>
    \A f \in Fixtures : occurrences(queue_fixtures_priority, f) <= 1

====
